---------------------------- MODULE Spec2Model ----------------------------
(***************************************************************************)
(* Follow-up scheduling and inbound message handling of the sales agent.   *)
(*                                                                         *)
(* The store (leads, conversations, follow-ups, analytics) is the          *)
(* datastore behind src/models/lead.py and src/models/config.py.  Request  *)
(* handlers are modelled twice: as one atomic action each (Spec, the       *)
(* sequential behaviour of the service) and, for execute_followup and      *)
(* process_message, as the steps between which the database is visible to  *)
(* other request threads (SpecConc).  The pure calculations of the         *)
(* scheduler (optimal time, priority) are operators; SpecTime and          *)
(* SpecPriority draw their inputs from bounded sets and apply them.        *)
(*                                                                         *)
(* Time is counted in whole minutes from a Monday 00:00.  Optional values  *)
(* (Python None) are sequences of length at most one.                      *)
(***************************************************************************)
EXTENDS Integers, Sequences, FiniteSets, TLC

VARIABLES
    leads,          \* table leads: id -> row
    conversations,  \* table conversations, in insertion order
    followups,      \* table followups: sequence, the index is the id
    analytics,      \* table analytics (committed rows)
    now,            \* datetime.utcnow(), in minutes
    lastResult,     \* what the last request returned
    exec_effects,   \* history: per follow-up, what its executions committed
    committed,      \* history: per lead, committed operations that called update_interaction
    pc,             \* SpecConc: per request thread, where its handler stands
    sess,           \* SpecConc: per request thread, the objects loaded in its session
    inp,            \* SpecTime / SpecPriority: the drawn inputs
    out             \* SpecTime / SpecPriority: the computed value

vars == <<leads, conversations, followups, analytics, now, lastResult,
          exec_effects, committed, pc, sess, inp, out>>

store == <<leads, conversations, followups, analytics>>

None == <<>>
Some(x) == <<x>>

Min(a, b) == IF a <= b THEN a ELSE b

\* ------------------------------------------------------------------ bounds

NowDays == 7            \* SpecTime: 'now' ranges over this many consecutive days
MaxFollowups == 1       \* Spec: follow-up rows the store may hold
MaxTicks == 1           \* clock advances
MaxBulkFollowups == 3   \* SpecBulk: follow-up rows the store may hold
MaxBatch == 3           \* SpecBulk: ids in one bulk-execute request
NumProcs == 2           \* SpecConc: concurrent request threads
MaxConcFollowups == 1   \* SpecConc: follow-up rows the store may hold
MaxMessages == 2        \* SpecConc: inbound messages processed
MaxConversations == 2   \* SpecLead: conversation rows the store may hold
MaxLeads == 3           \* SpecLead: lead rows the store may hold
MaxHistory == 7         \* SpecEscalate: entries of a conversation history
MaxPending == 2         \* SpecPending: follow-up rows the store may hold
MaxPendingTicks == 2    \* SpecPending: times the clock advances
MaxContacts == 4         \* SpecContacts: leads the table may hold
MaxLimit == 2           \* SpecPending: greatest limit of a pending query

\* ------------------------------------------------------------- calendar

MinutesPerDay == 24 * 60

\* datetime.weekday(): 0 = Monday .. 6 = Sunday
weekday(dt) == (dt \div MinutesPerDay) % 7

\* datetime.time(), as minutes since midnight
time_of(dt) == dt % MinutesPerDay

hour_of(dt) == time_of(dt) \div 60

\* datetime.replace(hour=h, minute=m, second=0, microsecond=0)
replace(dt, h, m) == (dt \div MinutesPerDay) * MinutesPerDay + h * 60 + m

\* ------------------------------------------- FollowUpScheduler.__init__

FollowUpType == {"welcome", "nurturing", "qualification", "proposal",
                 "closing", "reactivation", "feedback"}

Priority == {"LOW", "MEDIUM", "HIGH", "URGENT"}

business_start == 9 * 60
business_end == 18 * 60
lunch_start == 12 * 60
lunch_end == 14 * 60

default_intervals(followup_type) ==
    CASE followup_type = "welcome"       -> 2 * 60
      [] followup_type = "nurturing"     -> 3 * MinutesPerDay
      [] followup_type = "qualification" -> 1 * MinutesPerDay
      [] followup_type = "proposal"      -> 2 * MinutesPerDay
      [] followup_type = "closing"       -> 24 * 60
      [] followup_type = "reactivation"  -> 7 * MinutesPerDay
      [] followup_type = "feedback"      -> 1 * MinutesPerDay

\* ------------------------------------------------ optimal-time scheduler

\* The empty dict returned when there is no history.
NoLeadPatterns == [total_interactions |-> 0, preferred_hours |-> <<>>, preferred_days |-> <<>>]
NoSegmentPatterns == [sample_size |-> 0, preferred_hours |-> <<>>, preferred_days |-> <<>>]

\* Returns <<hour, minute>>.
get_optimal_hour(lead_patterns, segment_patterns) ==
    IF lead_patterns.total_interactions >= 3 /\ lead_patterns.preferred_hours # <<>>
    THEN <<lead_patterns.preferred_hours[1], 0>>
    ELSE IF segment_patterns.sample_size >= 10 /\ segment_patterns.preferred_hours # <<>>
    THEN <<segment_patterns.preferred_hours[1], 0>>
    ELSE <<10, 30>>

get_optimal_day_all_types(lead_patterns, segment_patterns, followup_type) ==
    IF lead_patterns.total_interactions >= 3 /\ lead_patterns.preferred_days # <<>>
    THEN Some(lead_patterns.preferred_days[1])
    ELSE IF segment_patterns.sample_size >= 10 /\ segment_patterns.preferred_days # <<>>
    THEN Some(segment_patterns.preferred_days[1])
    ELSE Some(1)

get_optimal_day(lead_patterns, segment_patterns, followup_type) ==
    IF followup_type \in {"welcome", "closing"}
    THEN None
    ELSE IF lead_patterns.total_interactions >= 3 /\ lead_patterns.preferred_days # <<>>
    THEN Some(lead_patterns.preferred_days[1])
    ELSE IF segment_patterns.sample_size >= 10 /\ segment_patterns.preferred_days # <<>>
    THEN Some(segment_patterns.preferred_days[1])
    ELSE Some(1)

to_monday(dt) ==
    IF weekday(dt) >= 5 THEN dt + (7 - weekday(dt)) * MinutesPerDay ELSE dt

\* The weekend not checked again after the roll to the next day.
adjust_to_business_hours_no_recheck(dt) ==
    LET d1 == to_monday(dt)
        current_time == time_of(d1)
    IN  IF current_time < business_start
        THEN replace(d1, 9, 0)
        ELSE IF current_time > business_end
        THEN replace(d1 + MinutesPerDay, 9, 0)
        ELSE IF lunch_start <= current_time /\ current_time <= lunch_end
        THEN replace(d1, 14, 0)
        ELSE d1

adjust_to_business_hours(dt) ==
    LET d1 == to_monday(dt)
        current_time == time_of(d1)
    IN  IF current_time < business_start
        THEN replace(d1, 9, 0)
        ELSE IF current_time > business_end
        THEN to_monday(replace(d1 + MinutesPerDay, 9, 0))
        ELSE IF lunch_start <= current_time /\ current_time <= lunch_end
        THEN replace(d1, 14, 0)
        ELSE d1

\* base_time with the selected hour, before any weekday or business-hours move
selected_time(now_, lead_patterns, segment_patterns, followup_type) ==
    LET base_time == now_ + default_intervals(followup_type)
        optimal_hour == get_optimal_hour(lead_patterns, segment_patterns)
    IN  replace(base_time, optimal_hour[1], optimal_hour[2])

\* A date that already falls on the preferred weekday kept.
day_adjusted_time_same_day(now_, lead_patterns, segment_patterns, followup_type) ==
    LET optimal_time == selected_time(now_, lead_patterns, segment_patterns, followup_type)
        optimal_day == get_optimal_day(lead_patterns, segment_patterns, followup_type)
        diff == optimal_day[1] - weekday(optimal_time)
        days_ahead == IF diff < 0 THEN diff + 7 ELSE diff
    IN  IF optimal_day # None
        THEN optimal_time + days_ahead * MinutesPerDay
        ELSE optimal_time

\* selected_time moved to the preferred weekday, before business-hours normalization
day_adjusted_time(now_, lead_patterns, segment_patterns, followup_type) ==
    LET optimal_time == selected_time(now_, lead_patterns, segment_patterns, followup_type)
        optimal_day == get_optimal_day(lead_patterns, segment_patterns, followup_type)
        diff == optimal_day[1] - weekday(optimal_time)
        days_ahead == IF diff <= 0 THEN diff + 7 ELSE diff
    IN  IF optimal_day # None
        THEN optimal_time + days_ahead * MinutesPerDay
        ELSE optimal_time

calculate_optimal_time(now_, lead_patterns, segment_patterns, followup_type) ==
    adjust_to_business_hours(
        day_adjusted_time(now_, lead_patterns, segment_patterns, followup_type))

\* ------------------------------------------------------- priority scorer
\* Scores are exact rationals <<numerator, denominator>>.  A lead's
\* sentiment_score is the rational <<sum of tenths, count>>, i.e. it is worth
\* sentiment_score[1] / (10 * sentiment_score[2]).

priority_weights ==
    [qualification_score |-> 30, engagement_level |-> 25,
     time_since_last_interaction |-> 20, intent_urgency |-> 15,
     lead_source_quality |-> 10]          \* hundredths

calculate_engagement_level_no_halving(lead) ==
    LET sn == lead.sentiment_score[1]
        sd == lead.sentiment_score[2]
    IN  IF lead.interaction_count = 0
        THEN <<0, 1>>
        ELSE <<2 * sd * Min(lead.interaction_count, 10) + sn + 10 * sd, 20 * sd>>

\* ((min(count / 10, 1)) + (sentiment + 1) / 2) / 2
calculate_engagement_level(lead) ==
    LET sn == lead.sentiment_score[1]
        sd == lead.sentiment_score[2]
    IN  IF lead.interaction_count = 0
        THEN <<0, 1>>
        ELSE <<2 * sd * Min(lead.interaction_count, 10) + sn + 10 * sd, 40 * sd>>

\* min(hours_since / 72, 1), with the time since the last interaction in minutes
calculate_time_urgency(lead, now_) ==
    IF lead.last_interaction = None
    THEN <<1, 1>>
    ELSE <<Min(now_ - lead.last_interaction[1], 72 * 60), 72 * 60>>

intent_urgency_map(intent) ==
    CASE intent = "demo_request"    -> 9
      [] intent = "pricing_inquiry" -> 8
      [] intent = "product_inquiry" -> 7
      [] intent = "complaint"       -> 9
      [] intent = "support_request" -> 6
      [] intent = "greeting"        -> 3
      [] intent = "goodbye"         -> 1
      [] intent = "general"         -> 4
      [] OTHER                      -> 5

\* last_intent: the intent of the lead's most recent conversation, None when
\* there is no conversation or it carries no intent
calculate_intent_urgency(last_intent) ==
    IF last_intent = None THEN <<5, 10>> ELSE <<intent_urgency_map(last_intent[1]), 10>>

get_source_quality_score(source) ==
    IF source = None THEN <<5, 10>>
    ELSE CASE source[1] = "referral"       -> <<9, 10>>
           [] source[1] = "website"        -> <<8, 10>>
           [] source[1] = "linkedin"       -> <<7, 10>>
           [] source[1] = "whatsapp"       -> <<6, 10>>
           [] source[1] = "facebook"       -> <<5, 10>>
           [] source[1] = "instagram"      -> <<5, 10>>
           [] source[1] = "cold_call"      -> <<3, 10>>
           [] source[1] = "email_campaign" -> <<4, 10>>
           [] source[1] = "unknown"        -> <<2, 10>>
           [] OTHER                        -> <<5, 10>>

\* The common denominator of the composite score of a lead: weights are
\* hundredths, components have denominators 10, 40 * count, 72 * 60 and 10.
score_den(lead) == 100 * 216 * lead.sentiment_score[2]

\* weight * component, over score_den(lead); every division is exact
weighted(lead, weight, component) ==
    (weight * 216 * lead.sentiment_score[2] * component[1]) \div component[2]

\* The numerator of the composite score over score_den(lead).
priority_score(lead, last_intent, now_) ==
      weighted(lead, priority_weights.qualification_score, <<lead.qualification_score, 10>>)
    + weighted(lead, priority_weights.engagement_level, calculate_engagement_level(lead))
    + weighted(lead, priority_weights.time_since_last_interaction, calculate_time_urgency(lead, now_))
    + weighted(lead, priority_weights.intent_urgency, calculate_intent_urgency(last_intent))
    + weighted(lead, priority_weights.lead_source_quality, get_source_quality_score(lead.source))

\* score / den >= t / 100
at_least(score, den, t) == score * 100 >= t * den

\* score >= t / 100
score_at_least(lead, score, t) == at_least(score, score_den(lead), t)

\* The tiers with their lower bounds exclusive.
score_to_priority_exclusive(score, den) ==
    IF score * 100 > 80 * den THEN "URGENT"
    ELSE IF score * 100 > 60 * den THEN "HIGH"
    ELSE IF score * 100 > 40 * den THEN "MEDIUM"
    ELSE "LOW"

\* The conversion of the score score / den to a priority.
score_to_priority(score, den) ==
    IF at_least(score, den, 80) THEN "URGENT"
    ELSE IF at_least(score, den, 60) THEN "HIGH"
    ELSE IF at_least(score, den, 40) THEN "MEDIUM"
    ELSE "LOW"

calculate_priority(lead, last_intent, now_) ==
    score_to_priority(priority_score(lead, last_intent, now_), score_den(lead))

\* ------------------------------------------- engagement pattern analyzer

Range(s) == {s[i] : i \in DOMAIN s}

count_of(items, x) == Cardinality({i \in DOMAIN items : items[i] = x})

first_index(items, x) ==
    CHOOSE i \in DOMAIN items : items[i] = x /\ \A j \in 1 .. (i - 1) : items[j] # x

\* Counter.most_common(): by descending count, equal counts in order of
\* first occurrence
RECURSIVE most_common_rest(_, _)
most_common_rest(items, remaining) ==
    IF remaining = {}
    THEN <<>>
    ELSE LET best == CHOOSE x \in remaining : \A y \in remaining \ {x} :
                        \/ count_of(items, x) > count_of(items, y)
                        \/ /\ count_of(items, x) = count_of(items, y)
                           /\ first_index(items, x) < first_index(items, y)
         IN  <<best>> \o most_common_rest(items, remaining \ {best})

get_most_common(items) == most_common_rest(items, Range(items))

\* The lead's inbound conversations, by created_at (the table is kept in
\* insertion order, which is the order of created_at).
inbound_of(convs, lead_ids) ==
    SelectSeq(convs, LAMBDA c : c.lead_id \in lead_ids /\ c.direction = "inbound")

analyze_lead_response_patterns(convs, lead_id) ==
    LET mine == inbound_of(convs, {lead_id})
    IN  IF mine = <<>>
        THEN NoLeadPatterns
        ELSE [total_interactions |-> Len(mine),
              preferred_hours |-> get_most_common([i \in DOMAIN mine |-> hour_of(mine[i].created_at)]),
              preferred_days |-> get_most_common([i \in DOMAIN mine |-> weekday(mine[i].created_at)])]

\* SQL equality of two nullable columns: NULL equals nothing.
sql_eq(a, b) == a # None /\ b # None /\ a = b

similar_leads(leads_, lead_id) ==
    {l \in DOMAIN leads_ :
        /\ l # lead_id
        /\ \/ sql_eq(leads_[l].category, leads_[lead_id].category)
           \/ sql_eq(leads_[l].source, leads_[lead_id].source)
           \/ sql_eq(leads_[l].location, leads_[lead_id].location)}

analyze_segment_patterns(leads_, convs, lead_id) ==
    LET theirs == inbound_of(convs, similar_leads(leads_, lead_id))
    IN  IF theirs = <<>>
        THEN NoSegmentPatterns
        ELSE [sample_size |-> Len(theirs),
              preferred_hours |-> get_most_common([i \in DOMAIN theirs |-> hour_of(theirs[i].created_at)]),
              preferred_days |-> get_most_common([i \in DOMAIN theirs |-> weekday(theirs[i].created_at)])]

\* The intent of the lead's most recent conversation, None when there is no
\* conversation or its intent is empty.
last_intent_of(convs, lead_id) ==
    LET mine == SelectSeq(convs, LAMBDA c : c.lead_id = lead_id)
    IN  IF mine = <<>> THEN None ELSE mine[Len(mine)].intent

\* The channels _determine_ideal_channel may return: a channel with the most
\* inbound conversations of the lead (the database orders equal counts as it
\* likes), else the lead's source, else whatsapp.
determine_ideal_channel(leads_, convs, lead_id) ==
    LET mine == inbound_of(convs, {lead_id})
        chans == [i \in DOMAIN mine |-> mine[i].channel]
    IN  IF mine # <<>>
        THEN {c \in Range(chans) : \A d \in Range(chans) : count_of(chans, c) >= count_of(chans, d)}
        ELSE IF leads_[lead_id].source # None
        THEN {leads_[lead_id].source[1]}
        ELSE {"whatsapp"}

\* --------------------------------------------- scheduling orchestration

\* random.choice(templates[followup_type]), with the lead's name interpolated:
\* the numbers of the templates that may be chosen
TemplateChoices == 1 .. 3

generate_followup_message(lead_id, followup_type, choice) ==
    [kind |-> followup_type, template |-> choice, name_of |-> lead_id]

CustomMessage == [kind |-> "custom", template |-> 0, name_of |-> 0]

NewFollowUp(lead_id, scheduled_at, message_template, channel, now_) ==
    [lead_id |-> lead_id, scheduled_at |-> scheduled_at,
     message_template |-> message_template, channel |-> channel,
     status |-> "scheduled", sent_at |-> None, created_at |-> now_]

Failure(op, error) == [op |-> op, success |-> FALSE, error |-> error]

\* Where an exception may be raised in schedule_intelligent_followup: nowhere,
\* up to and including the commit of the follow-up, or after it (while the
\* analytics record is built and the result assembled).
ScheduleFaults == {"none", "before_commit", "after_commit"}

\* The call once the lead is resolved.  Returns the follow-up table after the
\* call and the result returned.  Analytics rows are only added to the session
\* (db.session.add_all) and no commit follows: the request ends and its
\* session is discarded, so the analytics table is not written.
schedule_for_lead(leads_, convs, fups, now_, lead_id, followup_type, custom_message, priority, choice, channel, fault) ==
    IF fault = "before_commit"
    THEN [followups |-> fups,
          result |-> Failure("schedule", "exception") @@ [lead_id |-> lead_id]]
    ELSE
    LET optimal_time == calculate_optimal_time(
                            now_,
                            analyze_lead_response_patterns(convs, lead_id),
                            analyze_segment_patterns(leads_, convs, lead_id),
                            followup_type)
        prio == IF priority = None
                THEN calculate_priority(leads_[lead_id], last_intent_of(convs, lead_id), now_)
                ELSE priority[1]
        message == IF custom_message = None
                   THEN generate_followup_message(lead_id, followup_type, choice)
                   ELSE custom_message[1]
        followup == NewFollowUp(lead_id, optimal_time, message, channel, now_)
    IN  [followups |-> Append(fups, followup),
         result |->
            IF fault = "after_commit"
            THEN Failure("schedule", "exception") @@ [lead_id |-> lead_id]
            ELSE [op |-> "schedule", lead_id |-> lead_id, success |-> TRUE, error |-> "",
                  followup_id |-> Len(fups) + 1, scheduled_at |-> optimal_time,
                  channel |-> channel, priority |-> prio, message |-> message]]

\* The lead looked up only after the follow-up row was written.
schedule_persisting_before_lead_check(leads_, convs, fups, now_, lead_id, followup_type, custom_message, priority, choice, channel, fault) ==
    IF lead_id \notin DOMAIN leads_
    THEN [followups |-> Append(fups, NewFollowUp(lead_id,
                                calculate_optimal_time(now_, NoLeadPatterns, NoSegmentPatterns, followup_type),
                                generate_followup_message(lead_id, followup_type, choice),
                                channel, now_)),
          result |-> Failure("schedule", "not_found") @@ [lead_id |-> lead_id]]
    ELSE schedule_for_lead(leads_, convs, fups, now_, lead_id, followup_type,
                           custom_message, priority, choice, channel, fault)

schedule_intelligent_followup(leads_, convs, fups, now_, lead_id, followup_type, custom_message, priority, choice, channel, fault) ==
    IF lead_id \notin DOMAIN leads_
    THEN [followups |-> fups,
          result |-> Failure("schedule", "not_found") @@ [lead_id |-> lead_id]]
    ELSE schedule_for_lead(leads_, convs, fups, now_, lead_id, followup_type,
                           custom_message, priority, choice, channel, fault)

\* ------------------------------------------------------------- execution

\* Lead.update_interaction
update_interaction(lead, now_) ==
    [lead EXCEPT !.last_interaction = Some(now_),
                 !.interaction_count = lead.interaction_count + 1]

FollowupConversation(followup, now_) ==
    [lead_id |-> followup.lead_id, channel |-> followup.channel,
     direction |-> "outbound", message_content |-> followup.message_template,
     intent |-> Some("followup"), sentiment |-> None, is_escalated |-> FALSE,
     created_at |-> now_]

NoEffect == [conversations |-> 0, increments |-> 0, successes |-> 0]

\* The database state a handler reads and writes, with the history variables.
Db(leads_, convs, fups, effects, committed_) ==
    [leads |-> leads_, conversations |-> convs, followups |-> fups,
     exec_effects |-> effects, committed |-> committed_]

\* What the commit of an execution writes: the follow-up row as the session
\* holds it, the new conversation, and the lead row as the session holds it,
\* i.e. the lead as loaded (lead_loaded) with update_interaction applied.
commit_execution(db, followup_id, lead_loaded, sent_at, now_) ==
    LET followup == db.followups[followup_id]
        lead_id == followup.lead_id
        has_lead == lead_loaded # None
    IN  [leads |-> IF has_lead
                   THEN [db.leads EXCEPT ![lead_id] = update_interaction(lead_loaded[1], sent_at)]
                   ELSE db.leads,
         conversations |-> IF has_lead
                           THEN Append(db.conversations, FollowupConversation(followup, now_))
                           ELSE db.conversations,
         followups |-> [db.followups EXCEPT ![followup_id].status = "sent",
                                            ![followup_id].sent_at = Some(sent_at)],
         exec_effects |-> [db.exec_effects EXCEPT
                              ![followup_id].conversations = @ + (IF has_lead THEN 1 ELSE 0),
                              ![followup_id].increments = @ + (IF has_lead THEN 1 ELSE 0),
                              ![followup_id].successes = @ + 1],
         committed |-> IF has_lead
                       THEN [db.committed EXCEPT ![lead_id] = @ + 1]
                       ELSE db.committed]

load_lead(db, lead_id) == IF lead_id \in DOMAIN db.leads THEN Some(db.leads[lead_id]) ELSE None

\* Where an exception may be raised in execute_followup once the follow-up
\* was found: nowhere, up to and including the commit, or after it (while the
\* result is built from the follow-up, whose attributes the commit expired).
ExecuteFaults == {"none", "commit", "after_commit"}

\* The rest of the call once the follow-up was found with status scheduled
\* and marked sent at sent_at in the session: the lead is loaded, the
\* conversation added, and all of it committed (or rolled back).
execute_commit(db, followup_id, sent_at, now_, fault) ==
    IF fault = "commit"
    THEN [db |-> db, result |-> Failure("execute", "exception") @@ [followup_id |-> followup_id]]
    ELSE [db |-> commit_execution(db, followup_id,
                                  load_lead(db, db.followups[followup_id].lead_id), sent_at, now_),
          result |-> IF fault = "after_commit"
                     THEN Failure("execute", "exception") @@ [followup_id |-> followup_id]
                     ELSE [op |-> "execute", followup_id |-> followup_id, success |-> TRUE,
                           error |-> "", sent_at |-> sent_at]]

\* The call once the follow-up was found with status scheduled.
execute_scheduled(db, followup_id, now_, fault) ==
    execute_commit(db, followup_id, now_, now_, fault)

execute_without_status_check(db, followup_id, now_, fault) ==
    IF followup_id \notin DOMAIN db.followups
    THEN [db |-> db, result |-> Failure("execute", "not_found") @@ [followup_id |-> followup_id]]
    ELSE execute_scheduled(db, followup_id, now_, fault)

\* execute_followup run without interruption: the database after the call and
\* the result returned.
execute_followup(db, followup_id, now_, fault) ==
    IF followup_id \notin DOMAIN db.followups
    THEN [db |-> db, result |-> Failure("execute", "not_found") @@ [followup_id |-> followup_id]]
    ELSE IF db.followups[followup_id].status # "scheduled"
    THEN [db |-> db, result |-> Failure("execute", "already_executed") @@ [followup_id |-> followup_id]]
    ELSE execute_scheduled(db, followup_id, now_, fault)

\* The loop stopping at the first failing id.
RECURSIVE bulk_loop_aborting(_, _, _, _, _, _)
bulk_loop_aborting(db, ids, i, now_, fault_at, results) ==
    IF i > Len(ids)
    THEN [db |-> db, results |-> results]
    ELSE LET r == execute_followup(db, ids[i], now_, IF i = fault_at THEN "commit" ELSE "none")
             rs == Append(results, [followup_id |-> ids[i], result |-> r.result])
         IN  IF r.result.success
             THEN bulk_loop_aborting(r.db, ids, i + 1, now_, fault_at, rs)
             ELSE [db |-> r.db, results |-> rs]

\* The loop of bulk_execute_followups over ids[i..], the i-th call raising
\* at its commit when i = fault_at.  Returns the database and the results.
RECURSIVE bulk_loop(_, _, _, _, _, _)
bulk_loop(db, ids, i, now_, fault_at, results) ==
    IF i > Len(ids)
    THEN [db |-> db, results |-> results]
    ELSE LET r == execute_followup(db, ids[i], now_, IF i = fault_at THEN "commit" ELSE "none")
         IN  bulk_loop(r.db, ids, i + 1, now_, fault_at,
                       Append(results, [followup_id |-> ids[i], result |-> r.result]))

count_success(results) == Cardinality({i \in DOMAIN results : results[i].result.success})

count_errors(results) == Cardinality({i \in DOMAIN results : ~results[i].result.success})

bulk_execute_followups(db, ids, now_, fault_at) ==
    IF ids = <<>>
    THEN [db |-> db, result |-> Failure("bulk", "ids_required") @@ [followup_ids |-> ids]]
    ELSE LET r == bulk_loop(db, ids, 1, now_, fault_at, <<>>)
         IN  [db |-> r.db,
              result |-> [op |-> "bulk", followup_ids |-> ids, success |-> TRUE, error |-> "",
                          summary |-> [total |-> Len(ids),
                                       success |-> count_success(r.results),
                                       errors |-> count_errors(r.results)],
                          results |-> r.results]]

\* ---------------------------------------------------------- pending queue

\* The rows the query of get_pending_followups selects
pending_followups(fups, now_) ==
    {i \in DOMAIN fups : fups[i].status = "scheduled" /\ fups[i].scheduled_at <= now_}

\* The orders ORDER BY scheduled_at may give the selected rows (rows with
\* equal scheduled_at come in any order)
pending_orders(fups, now_) ==
    {order \in [1 .. Cardinality(pending_followups(fups, now_)) -> pending_followups(fups, now_)] :
        \A j, k \in DOMAIN order :
            j < k => order[j] # order[k] /\ fups[order[j]].scheduled_at <= fups[order[k]].scheduled_at}

pending_item(fups, now_, i) ==
    [followup_id |-> i, lead_id |-> fups[i].lead_id, scheduled_at |-> fups[i].scheduled_at,
     message |-> fups[i].message_template, channel |-> fups[i].channel,
     overdue_minutes |-> now_ - fups[i].scheduled_at]

\* The query without its LIMIT.
get_pending_followups_unlimited(fups, now_, limit, order) ==
    [k \in 1 .. Len(order) |-> pending_item(fups, now_, order[k])]

\* get_pending_followups(limit), order being the order the database gave the
\* selected rows
get_pending_followups(fups, now_, limit, order) ==
    [k \in 1 .. Min(limit, Len(order)) |-> pending_item(fups, now_, order[k])]

\* ------------------------------------------------------- inbound messages

\* Outcomes of nlp_service.analyze_message: polarity in tenths, confidence in
\* hundredths.
Analyses ==
    {[intent |-> "greeting", polarity |-> 5, confidence |-> 80],
     [intent |-> "complaint", polarity |-> -8, confidence |-> 80],
     [intent |-> "general", polarity |-> -5, confidence |-> 60]}

\* The lead's ten most recent conversations, most recent first.
recent_conversations(convs, lead_id) ==
    LET mine == SelectSeq(convs, LAMBDA c : c.lead_id = lead_id)
    IN  [i \in 1 .. Min(10, Len(mine)) |-> mine[Len(mine) + 1 - i]]

should_escalate(intent, polarity, confidence, history) ==
    \/ confidence < 30
    \/ intent = "complaint" /\ polarity < -5
    \/ intent = "support_request" /\ confidence < 50
    \/ /\ Len(history) > 5
       /\ Cardinality({i \in (Len(history) - 4) .. Len(history) :
                          history[i].intent = Some("general")}) >= 3

\* Only the first rule that triggers gives its reason.
escalation_reasons_first_only(intent, polarity, confidence, history) ==
    IF confidence < 30 THEN <<"low_confidence">>
    ELSE IF intent = "complaint" /\ polarity < -5 THEN <<"serious_complaint">>
    ELSE IF intent = "support_request" /\ confidence < 50 THEN <<"complex_support">>
    ELSE IF /\ Len(history) > 5
            /\ Cardinality({i \in (Len(history) - 4) .. Len(history) :
                               history[i].intent = Some("general")}) >= 3
         THEN <<"no_clear_intent">>
    ELSE <<>>

\* The list escalation_reasons of should_escalate, each message by a name
escalation_reasons(intent, polarity, confidence, history) ==
    (IF confidence < 30 THEN <<"low_confidence">> ELSE <<>>)
    \o (IF intent = "complaint" /\ polarity < -5 THEN <<"serious_complaint">> ELSE <<>>)
    \o (IF intent = "support_request" /\ confidence < 50 THEN <<"complex_support">> ELSE <<>>)
    \o (IF /\ Len(history) > 5
           /\ Cardinality({i \in (Len(history) - 4) .. Len(history) :
                              history[i].intent = Some("general")}) >= 3
        THEN <<"no_clear_intent">> ELSE <<>>)

\* The estimate built up from 0 instead of the base of 0.5.
calculate_confidence_without_base(intent, custom, spacy, polarity) ==
    Min(100, (IF intent # "general" THEN 20 ELSE 0)
             + (IF custom # {} \/ spacy # {} THEN 20 ELSE 0)
             + (IF polarity > 3 \/ polarity < -3 THEN 10 ELSE 0))

\* A polarity of exactly 0.3 counted as a clear sentiment.
calculate_confidence_inclusive(intent, custom, spacy, polarity) ==
    Min(100, 50 + (IF intent # "general" THEN 20 ELSE 0)
                + (IF custom # {} \/ spacy # {} THEN 20 ELSE 0)
                + (IF polarity >= 3 \/ polarity <= -3 THEN 10 ELSE 0))

\* _calculate_confidence in hundredths, of an intent, the two entity maps (by
\* their keys) and a polarity in tenths
calculate_confidence(intent, custom, spacy, polarity) ==
    Min(100, 50 + (IF intent # "general" THEN 20 ELSE 0)
                + (IF custom # {} \/ spacy # {} THEN 20 ELSE 0)
                + (IF polarity > 3 \/ polarity < -3 THEN 10 ELSE 0))

\* analyze_message, of what the detectors found in the message: the intent,
\* the entities and the polarity, with the confidence estimated from them
analyze_message(intent, custom, spacy, polarity) ==
    [intent |-> intent, polarity |-> polarity,
     confidence |-> calculate_confidence(intent, custom, spacy, polarity)]

\* func.avg(Conversation.sentiment) over the lead's conversations that have a
\* sentiment: <<sum, count>> of rows 1..i
RECURSIVE sentiment_total(_, _, _)
sentiment_total(convs, lead_id, i) ==
    IF i = 0
    THEN <<0, 0>>
    ELSE LET rest == sentiment_total(convs, lead_id, i - 1)
             c == convs[i]
         IN  IF c.lead_id = lead_id /\ c.sentiment # None
             THEN <<rest[1] + c.sentiment[1], rest[2] + 1>>
             ELSE rest

InboundMessage == [kind |-> "inbound", template |-> 0, name_of |-> 0]

generate_response(intent, lead_id) == [kind |-> intent, template |-> 1, name_of |-> lead_id]

ProcessFaults == {"none", "commit"}

\* How a call to the Pipedrive API ends
SyncOutcomes == {"ok", "fail"}

\* The id Pipedrive gives the person created for a lead
PersonIdOf(lead_id) == lead_id

\* The error of the API call let through to the caller.
sync_lead_to_pipedrive_raising(db, lead_id, sync) ==
    IF sync = "fail"
    THEN [db |-> db, raised |-> TRUE, result |-> [success |-> FALSE, error |-> "sync"]]
    ELSE [db |-> [db EXCEPT !.leads[lead_id].pipedrive_id =
                                IF @ = None THEN Some(PersonIdOf(lead_id)) ELSE @],
          raised |-> FALSE,
          result |-> [success |-> TRUE, error |-> ""]]

\* sync_lead_to_pipedrive on the lead as the session holds it in db: a
\* failing API call is caught and reported in the result, nothing is raised
\* to the caller; a new person's id is stored on the lead and the session
\* committed.
sync_lead_to_pipedrive(db, lead_id, sync) ==
    IF sync = "fail"
    THEN [db |-> db, raised |-> FALSE, result |-> [success |-> FALSE, error |-> "sync"]]
    ELSE [db |-> [db EXCEPT !.leads[lead_id].pipedrive_id =
                                IF @ = None THEN Some(PersonIdOf(lead_id)) ELSE @],
          raised |-> FALSE,
          result |-> [success |-> TRUE, error |-> ""]]

\* The response recorded whether or not the message is escalated.
process_commit_always_answering(db, lead_id, lead_loaded, history, analysis, now_, fault, crm, sync) ==
    LET escalated == should_escalate(analysis.intent, analysis.polarity,
                                     analysis.confidence, history)
        incoming == [lead_id |-> lead_id, channel |-> "whatsapp", direction |-> "inbound",
                     message_content |-> InboundMessage, intent |-> Some(analysis.intent),
                     sentiment |-> Some(analysis.polarity), is_escalated |-> escalated,
                     created_at |-> now_]
        response == [lead_id |-> lead_id, channel |-> "whatsapp", direction |-> "outbound",
                     message_content |-> generate_response(analysis.intent, lead_id),
                     intent |-> Some("response"), sentiment |-> None,
                     is_escalated |-> FALSE, created_at |-> now_]
        flushed == Append(db.conversations, incoming)
        total == sentiment_total(flushed, lead_id, Len(flushed))
        touched == update_interaction(lead_loaded, now_)
        written == [db EXCEPT
                        !.leads[lead_id].interaction_count = touched.interaction_count,
                        !.leads[lead_id].last_interaction = touched.last_interaction,
                        !.leads[lead_id].sentiment_score = IF total[1] # 0 THEN total ELSE @,
                        !.conversations = Append(flushed, response),
                        !.committed[lead_id] = @ + 1]
        wants_sync == /\ crm
                      /\ \/ lead_loaded.pipedrive_id = None
                         \/ analysis.intent \in {"product_inquiry", "demo_request"}
        synced == sync_lead_to_pipedrive(written, lead_id, sync)
    IN  IF fault = "commit"
        THEN [db |-> db, result |-> Failure("process", "exception") @@ [lead_id |-> lead_id]]
        ELSE IF wants_sync /\ synced.raised
        THEN [db |-> db, result |-> Failure("process", "sync") @@ [lead_id |-> lead_id]]
        ELSE [db |-> IF wants_sync THEN synced.db ELSE written,
              result |-> [op |-> "process", lead_id |-> lead_id, success |-> TRUE,
                          error |-> "", escalated |-> escalated,
                          crm_sync |-> IF wants_sync THEN Some(synced.result) ELSE None]]

\* What process_message writes for a lead loaded as lead_loaded, with the
\* history read at that time: the inbound conversation, the lead's changed
\* columns (interaction_count is the loaded value plus one), the response
\* when the message is not escalated, the CRM sync when a Pipedrive
\* integration is configured (crm); then the commit, or the rollback.
process_commit(db, lead_id, lead_loaded, history, analysis, now_, fault, crm, sync) ==
    LET escalated == should_escalate(analysis.intent, analysis.polarity,
                                     analysis.confidence, history)
        incoming == [lead_id |-> lead_id, channel |-> "whatsapp", direction |-> "inbound",
                     message_content |-> InboundMessage, intent |-> Some(analysis.intent),
                     sentiment |-> Some(analysis.polarity), is_escalated |-> escalated,
                     created_at |-> now_]
        response == [lead_id |-> lead_id, channel |-> "whatsapp", direction |-> "outbound",
                     message_content |-> generate_response(analysis.intent, lead_id),
                     intent |-> Some("response"), sentiment |-> None,
                     is_escalated |-> FALSE, created_at |-> now_]
        flushed == Append(db.conversations, incoming)
        total == sentiment_total(flushed, lead_id, Len(flushed))
        touched == update_interaction(lead_loaded, now_)
        written == [db EXCEPT
                        !.leads[lead_id].interaction_count = touched.interaction_count,
                        !.leads[lead_id].last_interaction = touched.last_interaction,
                        !.leads[lead_id].sentiment_score = IF total[1] # 0 THEN total ELSE @,
                        !.conversations = IF escalated THEN flushed ELSE Append(flushed, response),
                        !.committed[lead_id] = @ + 1]
        wants_sync == /\ crm
                      /\ \/ lead_loaded.pipedrive_id = None
                         \/ analysis.intent \in {"product_inquiry", "demo_request"}
        synced == sync_lead_to_pipedrive(written, lead_id, sync)
    IN  IF fault = "commit"
        THEN [db |-> db, result |-> Failure("process", "exception") @@ [lead_id |-> lead_id]]
        ELSE IF wants_sync /\ synced.raised
        THEN [db |-> db, result |-> Failure("process", "sync") @@ [lead_id |-> lead_id]]
        ELSE [db |-> IF wants_sync THEN synced.db ELSE written,
              result |-> [op |-> "process", lead_id |-> lead_id, success |-> TRUE,
                          error |-> "", escalated |-> escalated,
                          crm_sync |-> IF wants_sync THEN Some(synced.result) ELSE None]]

\* process_message run without interruption
process_message(db, lead_id, analysis, now_, fault, crm, sync) ==
    process_commit(db, lead_id, db.leads[lead_id],
                   recent_conversations(db.conversations, lead_id), analysis, now_, fault, crm, sync)

\* Sentiments a request to add a conversation may carry (tenths), or none.
RequestSentiments == {None, Some(5), Some(-5)}

\* POST /leads/<id>/conversations
add_conversation(db, lead_id, sentiment, now_, fault) ==
    IF lead_id \notin DOMAIN db.leads
    THEN [db |-> db, result |-> Failure("add_conversation", "not_found") @@ [lead_id |-> lead_id]]
    ELSE IF fault = "commit"
    THEN [db |-> db, result |-> Failure("add_conversation", "exception") @@ [lead_id |-> lead_id]]
    ELSE
    LET conversation == [lead_id |-> lead_id, channel |-> "whatsapp", direction |-> "inbound",
                         message_content |-> InboundMessage, intent |-> None,
                         sentiment |-> sentiment, is_escalated |-> FALSE, created_at |-> now_]
        flushed == Append(db.conversations, conversation)
        total == sentiment_total(flushed, lead_id, Len(flushed))
        touched == update_interaction(db.leads[lead_id], now_)
    IN  [db |-> [db EXCEPT
                    !.leads[lead_id] =
                        [touched EXCEPT !.sentiment_score =
                            IF sentiment # None /\ total[1] # 0 THEN total ELSE @],
                    !.conversations = flushed,
                    !.committed[lead_id] = @ + 1],
         result |-> [op |-> "add_conversation", lead_id |-> lead_id, success |-> TRUE,
                     error |-> "", sentiment |-> sentiment]]

\* ------------------------------------------------------ lead maintenance

\* The column defaults of Lead, with the source create_lead gives a request
\* that names none.
NewLead(now_) ==
    [status |-> "new", qualification_score |-> 0, interaction_count |-> 0,
     last_interaction |-> Some(now_), sentiment_score |-> <<0, 1>>,
     source |-> Some("manual"), category |-> None, location |-> None,
     pipedrive_id |-> None]

\* POST /leads for a request with a name and neither email nor phone (no
\* existing lead can match): the lead is committed, then synchronised when an
\* integration is configured.  The result carries the lead returned (data)
\* and what the handler prints of the synchronisation (crm_sync).
create_lead(db, now_, fault, crm, sync) ==
    LET lead_id == Cardinality(DOMAIN db.leads) + 1
        created == [db EXCEPT !.leads = @ @@ (lead_id :> NewLead(now_)),
                              !.committed = @ @@ (lead_id :> 0)]
        synced == sync_lead_to_pipedrive(created, lead_id, sync)
        after == IF crm THEN synced.db ELSE created
    IN  IF fault = "commit"
        THEN [db |-> db, result |-> Failure("create_lead", "exception") @@ [lead_id |-> lead_id]]
        ELSE IF crm /\ synced.raised
        THEN [db |-> created, result |-> Failure("create_lead", "sync") @@ [lead_id |-> lead_id]]
        ELSE [db |-> after,
              result |-> [op |-> "create_lead", lead_id |-> lead_id, success |-> TRUE,
                          error |-> "", data |-> after.leads[lead_id],
                          crm_sync |-> IF crm THEN Some(synced.result) ELSE None]]

\* Values a request to update a lead may give its status
RequestStatuses == {"new", "converted"}

\* PUT /leads/<id> with a status (or none) among the fields given
update_lead(db, lead_id, status, now_, fault, crm, sync) ==
    IF lead_id \notin DOMAIN db.leads
    THEN [db |-> db, result |-> Failure("update_lead", "not_found") @@ [lead_id |-> lead_id]]
    ELSE IF fault = "commit"
    THEN [db |-> db, result |-> Failure("update_lead", "exception") @@ [lead_id |-> lead_id]]
    ELSE
    LET updated == [db EXCEPT !.leads[lead_id].status = IF status = None THEN @ ELSE status[1]]
        synced == sync_lead_to_pipedrive(updated, lead_id, sync)
        after == IF crm THEN synced.db ELSE updated
    IN  IF crm /\ synced.raised
        THEN [db |-> updated, result |-> Failure("update_lead", "sync") @@ [lead_id |-> lead_id]]
        ELSE [db |-> after,
              result |-> [op |-> "update_lead", lead_id |-> lead_id, success |-> TRUE,
                          error |-> "", data |-> after.leads[lead_id],
                          crm_sync |-> IF crm THEN Some(synced.result) ELSE None]]

\* The conversations the query "latest conversation of the lead" may return:
\* those of the lead with the greatest created_at.
latest_conversations(convs, lead_id) ==
    {i \in DOMAIN convs :
        /\ convs[i].lead_id = lead_id
        /\ \A j \in DOMAIN convs : convs[j].lead_id = lead_id
                                    => convs[j].created_at <= convs[i].created_at}

\* POST /chat/escalate naming a lead; conversation is the one the query
\* returned, 0 when the lead has none.
escalate_conversation(db, lead_id, conversation) ==
    IF conversation = 0
    THEN [db |-> db, result |-> Failure("escalate", "not_found") @@ [lead_id |-> lead_id]]
    ELSE [db |-> [db EXCEPT !.conversations[conversation].is_escalated = TRUE,
                            !.leads[lead_id].status = "escalated"],
          result |-> [op |-> "escalate", lead_id |-> lead_id, success |-> TRUE, error |-> ""]]

\* The leads whose pipedrive_id is person_id (the column is unique)
leads_of_person(db, person_id) ==
    {l \in DOMAIN db.leads : db.leads[l].pipedrive_id = Some(person_id)}

DealStatuses == {"won", "lost", "open"}

\* process_deal_webhook for a deal of person_id
process_deal_webhook(db, person_id, status) ==
    [db |-> [db EXCEPT !.leads = [l \in DOMAIN @ |->
                IF l \in leads_of_person(db, person_id)
                THEN [@[l] EXCEPT !.status = CASE status = "won" -> "converted"
                                               [] status = "lost" -> "lost"
                                               [] status = "open" -> "qualified"
                                               [] OTHER -> @]
                ELSE @[l]]],
     result |-> [op |-> "deal_webhook", person_id |-> person_id, success |-> TRUE, error |-> ""]]

\* process_person_webhook for the event deleted
process_person_webhook(db, person_id, crm) ==
    IF ~crm
    THEN [db |-> db, result |-> Failure("person_webhook", "not_configured") @@ [person_id |-> person_id]]
    ELSE [db |-> [db EXCEPT !.leads = [l \in DOMAIN @ |->
                    IF l \in leads_of_person(db, person_id)
                    THEN [@[l] EXCEPT !.status = "deleted"]
                    ELSE @[l]]],
          result |-> [op |-> "person_webhook", person_id |-> person_id, success |-> TRUE,
                      error |-> ""]]

\* pipedrive_webhook: without an active integration the event is refused,
\* otherwise the handler of the object's type runs (handled is its outcome).
pipedrive_webhook(db, crm, handled) ==
    IF ~crm
    THEN [db |-> db, result |-> Failure("webhook", "not_found") @@ [person_id |-> 0]]
    ELSE handled

ActivityMessage == [kind |-> "activity", template |-> 0, name_of |-> 0]

\* process_activity_webhook for the event added
process_activity_webhook(db, person_id, now_) ==
    LET found == leads_of_person(db, person_id)
    IN  [db |-> IF found = {}
                THEN db
                ELSE LET lead_id == CHOOSE l \in found : TRUE
                     IN  [db EXCEPT
                            !.leads[lead_id] = update_interaction(@, now_),
                            !.conversations = Append(@,
                                [lead_id |-> lead_id, channel |-> "pipedrive",
                                 direction |-> "outbound", message_content |-> ActivityMessage,
                                 intent |-> Some("activity"), sentiment |-> None,
                                 is_escalated |-> FALSE, created_at |-> now_]),
                            !.committed[lead_id] = @ + 1],
         result |-> [op |-> "activity_webhook", person_id |-> person_id, success |-> TRUE,
                     error |-> ""]]

\* ---------------------------------------------- the variables left alone

IdleStore ==
    /\ leads = <<>>
    /\ conversations = <<>>
    /\ followups = <<>>
    /\ analytics = <<>>
    /\ now = 0
    /\ lastResult = [op |-> "none"]
    /\ exec_effects = <<>>
    /\ committed = <<>>

IdleThreads ==
    /\ pc = <<>>
    /\ sess = <<>>

\* The duplicate check of POST /leads on a table whose rows carry the two
\* contact columns: an email in the request is looked up and the phone is
\* then not (elif); the phone is looked up only when no email was given.
\* first() without an order returns the row of the lowest id on this table.
existing_lead(table, email, phone) ==
    LET by_email == {l \in DOMAIN table : table[l].email = email}
        by_phone == {l \in DOMAIN table : table[l].phone = phone}
        found == IF email # None THEN by_email ELSE IF phone # None THEN by_phone ELSE {}
    IN  IF found = {} THEN None ELSE Some(CHOOSE l \in found : \A m \in found : l <= m)

\* POST /leads for a request with a name, and the email and phone given
\* (None when absent or empty), with no integration configured: 409 with the
\* existing lead's id when the check finds one, else the lead is committed.
create_lead_contacts(table, email, phone, fault) ==
    LET existing == existing_lead(table, email, phone)
        lead_id == Cardinality(DOMAIN table) + 1
    IN  IF existing # None
        THEN [table |-> table,
              result |-> Failure("create_lead", "conflict") @@ [existing_lead_id |-> existing[1]]]
        ELSE IF fault = "commit"
        THEN [table |-> table, result |-> Failure("create_lead", "exception")]
        ELSE [table |-> table @@ (lead_id :> [email |-> email, phone |-> phone]),
              result |-> [op |-> "create_lead", success |-> TRUE, error |-> "", lead_id |-> lead_id]]

\* ---------------------------------------------------------------- SpecTime
\* _calculate_optimal_time applied to drawn (now, type, history patterns).

NowTimes == {30, 9 * 60, 10 * 60 + 30, 15 * 60, 18 * 60, 22 * 60 + 15, 23 * 60 + 59}

NowSet == {d * MinutesPerDay + t : d \in 0 .. NowDays - 1, t \in NowTimes}

LeadPatternSet ==
    {NoLeadPatterns,
     [total_interactions |-> 2, preferred_hours |-> <<20>>, preferred_days |-> <<6>>]}
    \cup {[total_interactions |-> 3, preferred_hours |-> <<h>>, preferred_days |-> <<d>>] :
            h \in 0 .. 23, d \in 0 .. 6}

SegmentPatternSet ==
    {NoSegmentPatterns,
     [sample_size |-> 9, preferred_hours |-> <<7>>, preferred_days |-> <<5>>],
     [sample_size |-> 10, preferred_hours |-> <<13>>, preferred_days |-> <<5>>]}

InitTime ==
    /\ inp \in [kind : {"time"}, now : NowSet, followup_type : FollowUpType,
                lead_patterns : LeadPatternSet, segment_patterns : SegmentPatternSet]
    /\ out = None
    /\ IdleStore
    /\ IdleThreads

ComputeTime ==
    /\ inp.kind = "time"
    /\ out = None
    /\ out' = Some(calculate_optimal_time(inp.now, inp.lead_patterns,
                                          inp.segment_patterns, inp.followup_type))
    /\ UNCHANGED <<leads, conversations, followups, analytics, now, lastResult,
                   exec_effects, committed, pc, sess, inp>>

SpecTime == InitTime /\ [][ComputeTime]_vars

\* ------------------------------------------------------------ SpecPriority
\* _calculate_priority applied to drawn lead fields.

PriorityNow == 7 * MinutesPerDay

PriorityLeads ==
    [qualification_score : {0, 5, 8, 10},
     interaction_count : {0, 5, 12},
     sentiment_score : {<<st, 1>> : st \in {-10, 0, 5, 10}},
     last_interaction : {None} \cup {Some(PriorityNow - m) : m \in {0, 10 * 60, 72 * 60, 100 * 60}},
     source : {None} \cup {Some(x) : x \in {"referral", "website", "cold_call", "unknown", "manual"}}]

InitPriority ==
    /\ inp \in [kind : {"priority"}, lead : PriorityLeads, now : {PriorityNow},
                last_intent : {None} \cup {Some(i) : i \in {"demo_request", "greeting", "goodbye", "followup"}}]
    /\ out = None
    /\ IdleStore
    /\ IdleThreads

ComputePriority ==
    /\ inp.kind = "priority"
    /\ out = None
    /\ out' = Some([score |-> priority_score(inp.lead, inp.last_intent, inp.now),
                    den |-> score_den(inp.lead),
                    priority |-> calculate_priority(inp.lead, inp.last_intent, inp.now)])
    /\ UNCHANGED <<leads, conversations, followups, analytics, now, lastResult,
                   exec_effects, committed, pc, sess, inp>>

SpecPriority == InitPriority /\ [][ComputePriority]_vars

\* ---------------------------------------------------------------- SpecTier
\* The score-to-priority conversion applied to pairs of scores, in
\* thousandths.

ScoreDen == 10 * 100

TierScores == {0, 1, 399, 400, 401, 599, 600, 601, 790, 799, 800, 801, 999, 1000}

InitTier ==
    /\ inp \in [kind : {"tier"}, score : TierScores, other : TierScores]
    /\ out = None
    /\ IdleStore
    /\ IdleThreads

ComputeTier ==
    /\ inp.kind = "tier"
    /\ out = None
    /\ out' = Some([priority |-> score_to_priority(inp.score, ScoreDen),
                    other |-> score_to_priority(inp.other, ScoreDen)])
    /\ UNCHANGED <<leads, conversations, followups, analytics, now, lastResult,
                   exec_effects, committed, pc, sess, inp>>

SpecTier == InitTier /\ [][ComputeTier]_vars

\* ------------------------------------------------------------ SpecEscalate
\* should_escalate applied to drawn (intent, polarity, confidence, history).

EscalateIntents == {"general", "complaint", "support_request", "greeting"}
EscalatePolarities == {-6, -5, 5}
EscalateConfidences == {20, 29, 30, 49, 50, 90}
Histories == UNION {[1 .. n -> [intent : {Some("general"), Some("greeting")}]] : n \in 0 .. MaxHistory}

InitEscalate ==
    /\ inp \in [kind : {"escalate"}, intent : EscalateIntents, polarity : EscalatePolarities,
                confidence : EscalateConfidences, history : Histories]
    /\ out = None
    /\ IdleStore
    /\ IdleThreads

ComputeEscalation ==
    /\ inp.kind = "escalate"
    /\ out = None
    /\ out' = Some([should_escalate |-> should_escalate(inp.intent, inp.polarity,
                                                        inp.confidence, inp.history),
                    reasons |-> escalation_reasons(inp.intent, inp.polarity,
                                                   inp.confidence, inp.history)])
    /\ UNCHANGED <<leads, conversations, followups, analytics, now, lastResult,
                   exec_effects, committed, pc, sess, inp>>

SpecEscalate == InitEscalate /\ [][ComputeEscalation]_vars

\* ---------------------------------------------------------- SpecConfidence
\* _calculate_confidence applied to drawn (intent, entities, polarity).

ConfidenceIntents == {"general", "greeting", "complaint"}
EntityMaps == {{}, {"email"}}
ConfidencePolarities == {-10, -4, -3, 0, 3, 4, 10}

InitConfidence ==
    /\ inp \in [kind : {"confidence"}, intent : ConfidenceIntents, custom : EntityMaps,
                spacy : EntityMaps, polarity : ConfidencePolarities]
    /\ out = None
    /\ IdleStore
    /\ IdleThreads

ComputeConfidence ==
    /\ inp.kind = "confidence"
    /\ out = None
    /\ out' = Some(calculate_confidence(inp.intent, inp.custom, inp.spacy, inp.polarity))
    /\ UNCHANGED <<leads, conversations, followups, analytics, now, lastResult,
                   exec_effects, committed, pc, sess, inp>>

SpecConfidence == InitConfidence /\ [][ComputeConfidence]_vars

\* -------------------------------------------------------------------- Spec
\* The service handling one request at a time.

StartNow == 8 * 60          \* a Monday, 08:00
TickMinutes == 7 * 60

\* Two leads created at Monday 00:00 (the column defaults of Lead).
InitLeads ==
    (1 :> [status |-> "new", qualification_score |-> 8, interaction_count |-> 0,
           last_interaction |-> Some(0), sentiment_score |-> <<0, 1>>,
           source |-> Some("referral"), category |-> Some("enterprise"),
           location |-> None, pipedrive_id |-> None])
    @@
    (2 :> [status |-> "new", qualification_score |-> 3, interaction_count |-> 0,
           last_interaction |-> Some(0), sentiment_score |-> <<0, 1>>,
           source |-> Some("whatsapp"), category |-> Some("enterprise"),
           location |-> None, pipedrive_id |-> None])

\* Lead ids a request may name: lead 1, and one id that resolves to nothing
\* (lead 2 forms the cohort of lead 1).
RequestLeadIds == {1, Cardinality(DOMAIN InitLeads) + 1}

\* Follow-up types requested of the store (SpecTime covers all of them).
RequestTypes == {"welcome", "nurturing"}

InitStore ==
    /\ leads = InitLeads
    /\ conversations = <<>>
    /\ followups = <<>>
    /\ analytics = <<>>
    /\ now = StartNow
    /\ lastResult = [op |-> "none"]
    /\ exec_effects = <<>>
    /\ committed = [l \in DOMAIN InitLeads |-> 0]

Init ==
    /\ InitStore
    /\ IdleThreads
    /\ inp = [kind |-> "none"]
    /\ out = None

\* POST /automation/followups/schedule, with the request drawn from the given
\* sets and the table holding at most max_followups rows.
ScheduleWith(lead_ids, types, customs, priorities, faults, max_followups) ==
    \E lead_id \in lead_ids, followup_type \in types,
       custom_message \in customs, priority \in priorities, fault \in faults :
    \E choice \in (IF custom_message = None /\ lead_id \in DOMAIN leads /\ fault # "before_commit"
                   THEN TemplateChoices ELSE {1}) :
    \E channel \in (IF lead_id \in DOMAIN leads
                    THEN determine_ideal_channel(leads, conversations, lead_id)
                    ELSE {"whatsapp"}) :
        LET r == schedule_intelligent_followup(leads, conversations, followups, now, lead_id,
                       followup_type, custom_message, priority, choice, channel, fault)
        IN  /\ Len(r.followups) <= max_followups
            /\ followups' = r.followups
            /\ exec_effects' = IF Len(r.followups) > Len(followups)
                               THEN Append(exec_effects, NoEffect)
                               ELSE exec_effects
            /\ lastResult' = r.result
            /\ UNCHANGED <<leads, conversations, analytics, now, committed, pc, sess, inp, out>>

Schedule ==
    ScheduleWith(RequestLeadIds, RequestTypes, {None, Some(CustomMessage)},
                 {None}, ScheduleFaults, MaxFollowups)

ApplyDb(db) ==
    /\ leads' = db.leads
    /\ conversations' = db.conversations
    /\ followups' = db.followups
    /\ exec_effects' = db.exec_effects
    /\ committed' = db.committed

CurrentDb == Db(leads, conversations, followups, exec_effects, committed)

\* POST /automation/followups/<id>/execute, for every id the table can hold
\* and one more
ExecuteWith(max_followups) ==
    \E followup_id \in 1 .. max_followups + 1, fault \in ExecuteFaults :
        LET r == execute_followup(CurrentDb, followup_id, now, fault)
        IN  /\ ApplyDb(r.db)
            /\ lastResult' = r.result
            /\ UNCHANGED <<analytics, now, pc, sess, inp, out>>

Execute == ExecuteWith(MaxFollowups)

\* Time passes.
TickWith(max_ticks) ==
    /\ now < StartNow + max_ticks * TickMinutes
    /\ now' = now + TickMinutes
    /\ UNCHANGED <<leads, conversations, followups, analytics, lastResult,
                   exec_effects, committed, pc, sess, inp, out>>

Tick == TickWith(MaxTicks)

Next == Schedule \/ Execute \/ Tick

Spec == Init /\ [][Next]_vars

\* ---------------------------------------------------------------- SpecBulk
\* Schedule, execute and bulk-execute requests, one at a time.  Requests to
\* schedule carry their own message and priority.

BatchIds == UNION {[1 .. n -> 1 .. MaxBulkFollowups] : n \in 0 .. MaxBatch}

ScheduleForBulk ==
    ScheduleWith({1}, {"welcome"}, {Some(CustomMessage)}, {Some("LOW")}, {"none"},
                 MaxBulkFollowups)

ExecuteForBulk == ExecuteWith(MaxBulkFollowups)

\* POST /automation/followups/bulk-execute
BulkExecute ==
    \E ids \in BatchIds :
    \E fault_at \in 0 .. Min(1, Len(ids)) :
        LET r == bulk_execute_followups(CurrentDb, ids, now, fault_at)
        IN  /\ ApplyDb(r.db)
            /\ lastResult' = r.result
            /\ UNCHANGED <<analytics, now, pc, sess, inp, out>>

TickForBulk == TickWith(MaxTicks)

NextBulk == ScheduleForBulk \/ ExecuteForBulk \/ BulkExecute \/ TickForBulk

SpecBulk == Init /\ [][NextBulk]_vars

\* ------------------------------------------------------------- SpecPending
\* Schedule, execute and pending-queue requests for two leads, one at a time.

SchedulePending ==
    ScheduleWith(DOMAIN InitLeads, {"welcome"}, {Some(CustomMessage)}, {None}, {"none"},
                 MaxPending)

ExecutePending ==
    \E followup_id \in 1 .. MaxPending :
        LET r == execute_followup(CurrentDb, followup_id, now, "none")
        IN  /\ ApplyDb(r.db)
            /\ lastResult' = r.result
            /\ UNCHANGED <<analytics, now, pc, sess, inp, out>>

\* GET /automation/followups/pending
GetPending ==
    \E limit \in 1 .. MaxLimit, order \in pending_orders(followups, now) :
        /\ lastResult' = [op |-> "pending", limit |-> limit,
                          items |-> get_pending_followups(followups, now, limit, order)]
        /\ UNCHANGED <<leads, conversations, followups, analytics, now, exec_effects,
                       committed, pc, sess, inp, out>>

PendingTickMinutes == 24 * 60

\* Time passes.
TickPending ==
    /\ now < StartNow + MaxPendingTicks * PendingTickMinutes
    /\ now' = now + PendingTickMinutes
    /\ UNCHANGED <<leads, conversations, followups, analytics, lastResult,
                   exec_effects, committed, pc, sess, inp, out>>

NextPending == SchedulePending \/ ExecutePending \/ GetPending \/ TickPending

SpecPending == Init /\ [][NextPending]_vars

\* ---------------------------------------------------------------- SpecLead
\* The requests that touch a lead, one at a time.

\* Lead ids a request may name: lead 1, and one id no lead ever has
LeadRequestIds == {1, MaxLeads + 1}

\* Outcomes of the analysis of the messages processed: a product inquiry
\* (one of the intents that are synchronised again) with a clear sentiment
LeadAnalyses == {[intent |-> "product_inquiry", polarity |-> 5, confidence |-> 90]}

\* Whether a Pipedrive integration is configured (an active CRMIntegration
\* row with a token)
crm_configured == inp.kind = "lead" /\ inp.crm

InitLead ==
    /\ InitStore
    /\ IdleThreads
    /\ inp \in [kind : {"lead"}, crm : BOOLEAN]
    /\ out = None

\* POST /chat/process
ProcessMessage ==
    \E lead_id \in {1}, analysis \in LeadAnalyses, fault \in ProcessFaults, sync \in SyncOutcomes :
        LET r == process_message(CurrentDb, lead_id, analysis, now, fault, crm_configured, sync)
        IN  /\ Len(r.db.conversations) <= MaxConversations
            /\ ApplyDb(r.db)
            /\ lastResult' = r.result
            /\ UNCHANGED <<analytics, now, pc, sess, inp, out>>

AddConversation ==
    \E lead_id \in LeadRequestIds, sentiment \in RequestSentiments, fault \in ProcessFaults :
        LET r == add_conversation(CurrentDb, lead_id, sentiment, now, fault)
        IN  /\ Len(r.db.conversations) <= MaxConversations
            /\ ApplyDb(r.db)
            /\ lastResult' = r.result
            /\ UNCHANGED <<analytics, now, pc, sess, inp, out>>

CreateLead ==
    \E fault \in ProcessFaults, sync \in SyncOutcomes :
        LET r == create_lead(CurrentDb, now, fault, crm_configured, sync)
        IN  /\ Cardinality(DOMAIN r.db.leads) <= MaxLeads
            /\ ApplyDb(r.db)
            /\ lastResult' = r.result
            /\ UNCHANGED <<analytics, now, pc, sess, inp, out>>

UpdateLead ==
    \E lead_id \in LeadRequestIds, status \in {None} \cup {Some(x) : x \in RequestStatuses},
       fault \in ProcessFaults, sync \in SyncOutcomes :
        LET r == update_lead(CurrentDb, lead_id, status, now, fault, crm_configured, sync)
        IN  /\ ApplyDb(r.db)
            /\ lastResult' = r.result
            /\ UNCHANGED <<analytics, now, pc, sess, inp, out>>

EscalateConversation ==
    \E lead_id \in {1} :
    \E conversation \in (IF latest_conversations(conversations, lead_id) = {}
                         THEN {0} ELSE latest_conversations(conversations, lead_id)) :
        LET r == escalate_conversation(CurrentDb, lead_id, conversation)
        IN  /\ ApplyDb(r.db)
            /\ lastResult' = r.result
            /\ UNCHANGED <<analytics, now, pc, sess, inp, out>>

\* POST /crm/pipedrive/webhook for a deal that was closed (won or lost)
DealWebhook ==
    \E person_id \in {PersonIdOf(1)}, status \in DealStatuses \ {"open"} :
        LET r == pipedrive_webhook(CurrentDb, crm_configured, process_deal_webhook(CurrentDb, person_id, status))
        IN  /\ ApplyDb(r.db)
            /\ lastResult' = r.result
            /\ UNCHANGED <<analytics, now, pc, sess, inp, out>>

\* POST /crm/pipedrive/webhook for a deleted person
PersonWebhook ==
    \E person_id \in {PersonIdOf(1)} :
        LET r == pipedrive_webhook(CurrentDb, crm_configured, process_person_webhook(CurrentDb, person_id, crm_configured))
        IN  /\ ApplyDb(r.db)
            /\ lastResult' = r.result
            /\ UNCHANGED <<analytics, now, pc, sess, inp, out>>

\* POST /crm/pipedrive/webhook for an added activity
ActivityWebhook ==
    \E person_id \in {PersonIdOf(1)} :
        LET r == pipedrive_webhook(CurrentDb, crm_configured, process_activity_webhook(CurrentDb, person_id, now))
        IN  /\ Len(r.db.conversations) <= MaxConversations
            /\ ApplyDb(r.db)
            /\ lastResult' = r.result
            /\ UNCHANGED <<analytics, now, pc, sess, inp, out>>

NextLead ==
    \/ ProcessMessage
    \/ AddConversation
    \/ CreateLead
    \/ UpdateLead
    \/ EscalateConversation
    \/ DealWebhook
    \/ PersonWebhook
    \/ ActivityWebhook

SpecLead == InitLead /\ [][NextLead]_vars

\* ---------------------------------------------------------------- SpecContacts
\* POST /leads on leads that carry an email and a phone.

RequestEmails == {None, Some("ana@x"), Some("bia@x")}
RequestPhones == {None, Some("111"), Some("222")}

InitContacts ==
    /\ leads = (1 :> [email |-> Some("ana@x"), phone |-> Some("111")])
    /\ conversations = <<>>
    /\ followups = <<>>
    /\ analytics = <<>>
    /\ now = StartNow
    /\ lastResult = [op |-> "none"]
    /\ exec_effects = <<>>
    /\ committed = <<>>
    /\ IdleThreads
    /\ inp = [kind |-> "contacts"]
    /\ out = None

CreateLeadContacts ==
    \E email \in RequestEmails, phone \in RequestPhones, fault \in ProcessFaults :
        LET r == create_lead_contacts(leads, email, phone, fault)
        IN  /\ Cardinality(DOMAIN r.table) <= MaxContacts
            /\ leads' = r.table
            /\ lastResult' = r.result @@ [email |-> email, phone |-> phone]
            /\ UNCHANGED <<conversations, followups, analytics, now, exec_effects, committed,
                           pc, sess, inp, out>>

SpecContacts == InitContacts /\ [][CreateLeadContacts]_vars

\* ---------------------------------------------------------------- SpecHistory
\* POST /chat/process for a lead that already has more than five
\* conversations (added through POST /leads/<id>/conversations with an
\* intent), oldest first in the table.

StoredIntents == {Some("general"), Some("greeting")}

StoredConversation(intent) ==
    [lead_id |-> 1, channel |-> "whatsapp", direction |-> "inbound",
     message_content |-> InboundMessage, intent |-> intent, sentiment |-> None,
     is_escalated |-> FALSE, created_at |-> 0]

\* A message on which no rule other than the history rule can trigger
HistoryAnalysis == [intent |-> "greeting", polarity |-> 5, confidence |-> 80]

InitHistory ==
    /\ leads = InitLeads
    /\ \E n \in 6 .. MaxHistory :
          \E intents \in [1 .. n -> StoredIntents] :
              conversations = [i \in 1 .. n |-> StoredConversation(intents[i])]
    /\ followups = <<>>
    /\ analytics = <<>>
    /\ now = StartNow
    /\ lastResult = [op |-> "none"]
    /\ exec_effects = <<>>
    /\ committed = [l \in DOMAIN InitLeads |-> 0]
    /\ IdleThreads
    /\ inp = [kind |-> "history"]
    /\ out = None

ProcessHistory ==
    /\ lastResult.op = "none"
    /\ LET r == process_message(CurrentDb, 1, HistoryAnalysis, now, "none", FALSE, "fail")
       IN  /\ ApplyDb(r.db)
           /\ lastResult' = r.result
    /\ UNCHANGED <<analytics, now, pc, sess, inp, out>>

SpecHistory == InitHistory /\ [][ProcessHistory]_vars

\* ---------------------------------------------------------------- SpecAnalysis
\* The analysis of an inbound message and the escalation verdict that
\* process_message derives from it, for drawn detector outcomes and histories.

AnalysisIntents == {"general", "greeting", "complaint", "support_request"}

\* Histories as the policy receives them: none, and six entries that are all
\* unclear or all clear
AnalysisHistories ==
    {<<>>, [i \in 1 .. 6 |-> [intent |-> Some("general")]],
     [i \in 1 .. 6 |-> [intent |-> Some("greeting")]]}

InitAnalysis ==
    /\ inp \in [kind : {"analysis"}, intent : AnalysisIntents, custom : EntityMaps,
                spacy : EntityMaps, polarity : ConfidencePolarities,
                history : AnalysisHistories]
    /\ out = None
    /\ IdleStore
    /\ IdleThreads

AnalyzeAndEscalate ==
    /\ inp.kind = "analysis"
    /\ out = None
    /\ LET analysis == analyze_message(inp.intent, inp.custom, inp.spacy, inp.polarity)
       IN  out' = Some([analysis |-> analysis,
                        should_escalate |-> should_escalate(analysis.intent, analysis.polarity,
                                                            analysis.confidence, inp.history),
                        reasons |-> escalation_reasons(analysis.intent, analysis.polarity,
                                                       analysis.confidence, inp.history)])
    /\ UNCHANGED <<leads, conversations, followups, analytics, now, lastResult,
                   exec_effects, committed, pc, sess, inp>>

SpecAnalysis == InitAnalysis /\ [][AnalyzeAndEscalate]_vars

\* ---------------------------------------------------------------- SpecConc
\* Request threads, each with its own database session.  A handler reads
\* (the other threads may commit in between), then flushes and commits; from
\* its first write to its commit the database lets no other writer in, so
\* that part is one step.

Procs == 1 .. NumProcs

NoSession == [op |-> "none"]

InitConc ==
    /\ InitStore
    /\ pc = [p \in Procs |-> "idle"]
    /\ sess = [p \in Procs |-> NoSession]
    /\ inp = [kind |-> "none"]
    /\ out = None

ScheduleConc ==
    ScheduleWith({1}, {"welcome"}, {Some(CustomMessage)}, {Some("LOW")}, {"none"},
                 MaxConcFollowups)

\* execute_followup up to the status check: the follow-up is loaded and, when
\* scheduled, marked sent in the session.
ExecuteBegin(p) ==
    /\ pc[p] = "idle"
    /\ \E followup_id \in 1 .. MaxConcFollowups + 1 :
        IF followup_id \in DOMAIN followups /\ followups[followup_id].status = "scheduled"
        THEN /\ pc' = [pc EXCEPT ![p] = "execute_loaded"]
             /\ sess' = [sess EXCEPT ![p] = [op |-> "execute", followup_id |-> followup_id,
                                             sent_at |-> now]]
             /\ UNCHANGED <<leads, conversations, followups, analytics, now, lastResult,
                            exec_effects, committed, inp, out>>
        ELSE /\ lastResult' = execute_followup(CurrentDb, followup_id, now, "none").result
             /\ UNCHANGED <<leads, conversations, followups, analytics, now,
                            exec_effects, committed, pc, sess, inp, out>>

\* execute_followup from the lead lookup to the commit
ExecuteCommit(p) ==
    /\ pc[p] = "execute_loaded"
    /\ \E fault \in ExecuteFaults :
        LET r == execute_commit(CurrentDb, sess[p].followup_id, sess[p].sent_at, now, fault)
        IN  /\ ApplyDb(r.db)
            /\ lastResult' = r.result
            /\ pc' = [pc EXCEPT ![p] = "idle"]
            /\ sess' = [sess EXCEPT ![p] = NoSession]
            /\ UNCHANGED <<analytics, now, inp, out>>

\* Inbound messages whose processing has begun
messages_begun ==
    Cardinality({i \in DOMAIN conversations : conversations[i].direction = "inbound"})
    + Cardinality({p \in Procs : pc[p] = "process_loaded"})

\* process_message up to the response text: the lead and its recent
\* conversations are loaded.
ProcessBegin(p) ==
    /\ pc[p] = "idle"
    /\ messages_begun < MaxMessages
    /\ \E lead_id \in {1}, analysis \in Analyses :
        /\ pc' = [pc EXCEPT ![p] = "process_loaded"]
        /\ sess' = [sess EXCEPT ![p] = [op |-> "process", lead_id |-> lead_id,
                                        lead |-> leads[lead_id],
                                        history |-> recent_conversations(conversations, lead_id),
                                        analysis |-> analysis]]
    /\ UNCHANGED <<leads, conversations, followups, analytics, now, lastResult,
                   exec_effects, committed, inp, out>>

\* process_message from the first write to the commit
ProcessCommit(p) ==
    /\ pc[p] = "process_loaded"
    /\ \E fault \in ProcessFaults :
        LET r == process_commit(CurrentDb, sess[p].lead_id, sess[p].lead, sess[p].history,
                                sess[p].analysis, now, fault, FALSE, "fail")
        IN  /\ ApplyDb(r.db)
            /\ lastResult' = r.result
            /\ pc' = [pc EXCEPT ![p] = "idle"]
            /\ sess' = [sess EXCEPT ![p] = NoSession]
            /\ UNCHANGED <<analytics, now, inp, out>>

NextConc ==
    \/ ScheduleConc
    \/ \E p \in Procs : ExecuteBegin(p)
    \/ \E p \in Procs : ExecuteCommit(p)
    \/ \E p \in Procs : ProcessBegin(p)
    \/ \E p \in Procs : ProcessCommit(p)

SpecConc == InitConc /\ [][NextConc]_vars

\* ------------------------------------------------------------------ claims

\* A step of the sequential specifications is identified by what it leaves in
\* lastResult: every request sets it, and only Tick moves the clock.
ExecuteStep == lastResult'.op = "execute" /\ now' = now

ScheduleStep == lastResult'.op = "schedule" /\ now' = now

BulkStep == lastResult'.op = "bulk" /\ now' = now

FollowupConversations(lead_id) ==
    {i \in DOMAIN conversations : /\ conversations[i].lead_id = lead_id
                                  /\ conversations[i].intent = Some("followup")}

SentFollowups(lead_id) ==
    {f \in DOMAIN followups : followups[f].lead_id = lead_id /\ followups[f].status = "sent"}

\* C1: executing a follow-up whose status is not 'scheduled' returns a
\* failure and writes nothing, so over any sequential series of requests each
\* follow-up has at most one outbound conversation and at most one
\* interaction-count increment: per lead there are exactly as many follow-up
\* conversations, and as many increments, as follow-ups sent.
C1_ExecuteIdempotent ==
    /\ [](/\ \A f \in DOMAIN followups :
                /\ exec_effects[f].conversations <= 1
                /\ exec_effects[f].increments <= 1
          /\ \A l \in DOMAIN leads :
                /\ Cardinality(FollowupConversations(l)) = Cardinality(SentFollowups(l))
                /\ leads[l].interaction_count = Cardinality(SentFollowups(l)))
    /\ [][(/\ ExecuteStep
           /\ lastResult'.followup_id \in DOMAIN followups
           /\ followups[lastResult'.followup_id].status # "scheduled")
          => (/\ ~lastResult'.success
              /\ lastResult'.error = "already_executed"
              /\ UNCHANGED <<leads, conversations, followups, analytics>>)]_vars

\* A sent follow-up was executed again: the call failed, and the follow-up
\* still has its one conversation.
C1_Witness ==
    /\ lastResult.op = "execute"
    /\ ~lastResult.success
    /\ lastResult.error = "already_executed"
    /\ followups[lastResult.followup_id].status = "sent"
    /\ exec_effects[lastResult.followup_id].conversations = 1
    /\ exec_effects[lastResult.followup_id].increments = 1

\* C2 as stated: when execute_followup calls race on a scheduled follow-up,
\* at most one of them returns success and at most one outbound conversation
\* is appended for that follow-up.
C2_AsStated ==
    \A f \in DOMAIN exec_effects :
        /\ exec_effects[f].successes <= 1
        /\ exec_effects[f].conversations <= 1

\* C3 as stated: once every request has finished, the lead's
\* interaction_count is its initial value plus the number of operations that
\* committed an increment (inbound messages processed, follow-ups executed).
C3_AsStated ==
    (\A p \in DOMAIN pc : pc[p] = "idle") =>
        \A l \in DOMAIN leads :
            leads[l].interaction_count = InitLeads[l].interaction_count + committed[l]

\* C4 as stated: a schedule call that returns a failure leaves no follow-up
\* of that call in the store; one that returns success leaves exactly one new
\* follow-up, with status 'scheduled' and its fields set.
C4_AsStated ==
    [][ScheduleStep =>
        IF lastResult'.success
        THEN /\ Len(followups') = Len(followups) + 1
             /\ SubSeq(followups', 1, Len(followups)) = followups
             /\ lastResult'.followup_id = Len(followups')
             /\ followups'[Len(followups')].status = "scheduled"
             /\ followups'[Len(followups')].lead_id = lastResult'.lead_id
             /\ followups'[Len(followups')].scheduled_at = lastResult'.scheduled_at
             /\ followups'[Len(followups')].message_template = lastResult'.message
             /\ followups'[Len(followups')].channel = lastResult'.channel
        ELSE followups' = followups]_vars

\* C14 as stated: a schedule call that has persisted its follow-up returns a
\* success result, also when recording the analytics event raised.
C14_AsStated ==
    [][ScheduleStep /\ Len(followups') = Len(followups) + 1 => lastResult'.success]_vars

\* C22 as stated: a schedule call without a custom message stores the first
\* template of the type's list with the lead's name; a custom message is
\* stored as given.
C22_AsStated ==
    [][(ScheduleStep /\ lastResult'.success /\ Len(followups') = Len(followups) + 1) =>
        LET stored == followups'[Len(followups')].message_template
        IN  \/ stored = CustomMessage
            \/ stored = generate_followup_message(lastResult'.lead_id,
                                                  stored.kind, 1)]_vars

\* C25 as stated: a schedule call that returns success has added exactly one
\* followup_scheduled event to the analytics table when it returns.
C25_AsStated ==
    [][(ScheduleStep /\ lastResult'.success) =>
        /\ Len(analytics') = Len(analytics) + 1
        /\ analytics'[Len(analytics')].metric_name = "followup_scheduled"]_vars

\* C27 as stated: an execute call that returns a failure leaves follow-ups,
\* conversations and leads as they were.
C27_AsStated ==
    [][(ExecuteStep /\ ~lastResult'.success) =>
        /\ followups' = followups
        /\ conversations' = conversations
        /\ leads' = leads]_vars

\* C28 as stated: no two leads share an email or a phone, whatever requests
\* POST /leads has served.
C28_AsStated ==
    \A l, m \in DOMAIN leads :
        l # m =>
            /\ leads[l].email # None => leads[l].email # leads[m].email
            /\ leads[l].phone # None => leads[l].phone # leads[m].phone

\* A message processed for a lead that has a history
ProcessStep ==
    /\ inp.kind = "history"
    /\ lastResult'.op = "process"
    /\ lastResult'.success

\* C24 as stated: a message that triggers no other rule is escalated exactly
\* when the lead has more than 5 conversations and at least 3 of the 5 most
\* recent of them (the last 5 of the table) have intent general.
C24_AsStated ==
    [][ProcessStep =>
        LET n == Len(conversations)
            unclear == {i \in (n - 4) .. n : conversations[i].intent = Some("general")}
        IN  lastResult'.escalated = (n > 5 /\ Cardinality(unclear) >= 3)]_vars

\* C26: a processed message is answered or handed off, never both.  The
\* commit appends the inbound conversation, carrying the verdict; when the
\* verdict is true nothing else is appended, and when it is false exactly one
\* outbound response of the same lead follows it.
C26_AnswerOrHandOff ==
    [][ProcessStep =>
        LET n == Len(conversations)
            added == Len(conversations') - n
            lead_id == lastResult'.lead_id
        IN  /\ added >= 1
            /\ SubSeq(conversations', 1, n) = conversations
            /\ conversations'[n + 1].direction = "inbound"
            /\ conversations'[n + 1].lead_id = lead_id
            /\ conversations'[n + 1].is_escalated = lastResult'.escalated
            /\ IF lastResult'.escalated
               THEN added = 1
               ELSE /\ added = 2
                    /\ conversations'[n + 2].direction = "outbound"
                    /\ conversations'[n + 2].intent = Some("response")
                    /\ conversations'[n + 2].lead_id = lead_id]_vars

\* A message was just handed off: the table ends with its inbound
\* conversation, marked escalated, and holds no response.
C26_Witness ==
    /\ inp.kind = "history"
    /\ lastResult.op = "process"
    /\ lastResult.success
    /\ lastResult.escalated
    /\ conversations[Len(conversations)].direction = "inbound"
    /\ conversations[Len(conversations)].intent = Some(HistoryAnalysis.intent)
    /\ conversations[Len(conversations)].is_escalated
    /\ \A i \in DOMAIN conversations : conversations[i].direction # "outbound"

AnalysisComputed == inp.kind = "analysis" /\ out # None

\* C30: the confidence that reaches the escalation policy from the analysis
\* of a message is at least 0.5, and at least 0.7 when the intent is not
\* general, so the reasons never include low confidence or complex support.
C30_ConfidenceFloor ==
    AnalysisComputed =>
        /\ out[1].analysis.confidence >= 50
        /\ inp.intent # "general" => out[1].analysis.confidence >= 70
        /\ "low_confidence" \notin Range(out[1].reasons)
        /\ "complex_support" \notin Range(out[1].reasons)

\* A support request with nothing else to go on, after six unclear
\* messages: confidence 0.7, escalated for the history alone.
C30_Witness ==
    /\ AnalysisComputed
    /\ inp.intent = "support_request"
    /\ inp.custom = {}
    /\ inp.spacy = {}
    /\ inp.polarity = 0
    /\ out[1].analysis.confidence = 70
    /\ out[1].should_escalate
    /\ out[1].reasons = <<"no_clear_intent">>

\* C5: a schedule call for a lead id that resolves to no lead returns the
\* not-found failure and leaves leads, conversations, follow-ups and
\* analytics as they were.
C5_UnknownLeadPersistsNothing ==
    [][(ScheduleStep /\ lastResult'.lead_id \notin DOMAIN leads)
       => (/\ ~lastResult'.success
           /\ lastResult'.error = "not_found"
           /\ UNCHANGED <<leads, conversations, followups, analytics>>)]_vars

\* The last request asked to schedule for an unknown lead, with follow-ups
\* already in the store.
C5_Witness ==
    /\ lastResult.op = "schedule"
    /\ lastResult.lead_id \notin DOMAIN leads
    /\ lastResult.error = "not_found"
    /\ followups # <<>>

\* C6 as stated: execute_followup marks a follow-up sent only when its
\* scheduled time has come, so every sent follow-up was sent at or after its
\* scheduled_at.
C6_AsStated ==
    \A f \in DOMAIN followups :
        followups[f].status = "sent" => followups[f].scheduled_at <= followups[f].sent_at[1]

\* C7: under schedule, execute and bulk-execute requests a follow-up whose
\* status is no longer 'scheduled' keeps its status and its sent_at in every
\* step.
C7_StatusTerminal ==
    [][\A f \in DOMAIN followups :
          followups[f].status # "scheduled"
          => (/\ f \in DOMAIN followups'
              /\ followups'[f].status = followups[f].status
              /\ followups'[f].sent_at = followups[f].sent_at)]_vars

\* A follow-up sent earlier was named again by a later bulk request.
C7_Witness ==
    /\ lastResult.op = "bulk"
    /\ lastResult.success
    /\ \E i \in DOMAIN lastResult.followup_ids :
          LET f == lastResult.followup_ids[i]
          IN  /\ f \in DOMAIN followups
              /\ followups[f].status = "sent"
              /\ followups[f].sent_at[1] < now
              /\ lastResult.results[i].result.error = "already_executed"

\* The i-th id of a bulk request can be executed: it names a follow-up that
\* was scheduled when the request arrived, and no earlier item of the request
\* has executed it.
BulkEligible(ids, results, i) ==
    /\ ids[i] \in DOMAIN followups
    /\ followups[ids[i]].status = "scheduled"
    /\ \A j \in 1 .. (i - 1) : ids[j] = ids[i] => ~results[j].result.success

\* C8: a bulk request over a non-empty id list succeeds as a call, returns
\* one result per id in input order, counts success + errors = total, and
\* executes every id that can be executed whatever happened to the ids before
\* it: an item fails only for an unknown id, a follow-up no longer scheduled,
\* or an exception in its own execution.
C8_BulkIndependent ==
    [][(BulkStep /\ lastResult'.followup_ids # <<>>) =>
        LET ids == lastResult'.followup_ids
            results == lastResult'.results
            summary == lastResult'.summary
        IN  /\ lastResult'.success
            /\ Len(results) = Len(ids)
            /\ \A i \in DOMAIN ids :
                  /\ results[i].followup_id = ids[i]
                  /\ results[i].result.success
                        => (BulkEligible(ids, results, i) /\ followups'[ids[i]].status = "sent")
                  /\ ~results[i].result.success
                        => \/ results[i].result.error = "exception"
                           \/ ~BulkEligible(ids, results, i)
            /\ summary.total = Len(ids)
            /\ summary.success = Cardinality({i \in DOMAIN ids : results[i].result.success})
            /\ summary.success + summary.errors = summary.total]_vars

\* Three different ids, one of them already sent: two successes, one failure.
C8_Witness ==
    /\ lastResult.op = "bulk"
    /\ lastResult.success
    /\ Len(lastResult.followup_ids) = 3
    /\ Cardinality(Range(lastResult.followup_ids)) = 3
    /\ lastResult.summary = [total |-> 3, success |-> 2, errors |-> 1]
    /\ \E i \in 1 .. 3 : /\ lastResult.results[i].result.error = "already_executed"
                         /\ i < 3
                         /\ lastResult.results[3].result.success

TimeComputed == inp.kind = "time" /\ out # None

\* The time with the selected hour, and the same moved to the selected weekday
TimeSelected ==
    selected_time(inp.now, inp.lead_patterns, inp.segment_patterns, inp.followup_type)

TimeDayAdjusted ==
    day_adjusted_time(inp.now, inp.lead_patterns, inp.segment_patterns, inp.followup_type)

\* The weekday selected: that of the lead's history, else of the cohort's,
\* else Tuesday
DaySelected ==
    IF inp.lead_patterns.total_interactions >= 3 /\ inp.lead_patterns.preferred_days # <<>>
    THEN inp.lead_patterns.preferred_days[1]
    ELSE IF inp.segment_patterns.sample_size >= 10 /\ inp.segment_patterns.preferred_days # <<>>
    THEN inp.segment_patterns.preferred_days[1]
    ELSE 1

\* C21: for types other than welcome and closing the date is advanced to the
\* next occurrence of the selected weekday: by 1 to 7 whole days, by exactly 7
\* when the base date already falls on that weekday, and the date before
\* business-hours normalization has the selected weekday.
C21_NextOccurrence ==
    (TimeComputed /\ inp.followup_type \notin {"welcome", "closing"}) =>
        /\ \E days \in 1 .. 7 : TimeDayAdjusted = TimeSelected + days * MinutesPerDay
        /\ weekday(TimeSelected) = DaySelected
              => TimeDayAdjusted = TimeSelected + 7 * MinutesPerDay
        /\ weekday(TimeDayAdjusted) = DaySelected
        /\ out[1] = adjust_to_business_hours(TimeDayAdjusted)

\* A nurturing follow-up of a lead that prefers Saturdays, asked on a
\* Wednesday: the base date is a Saturday and the date moves a full week.
C21_Witness ==
    /\ TimeComputed
    /\ inp.followup_type = "nurturing"
    /\ inp.lead_patterns.total_interactions >= 3
    /\ inp.lead_patterns.preferred_days = <<5>>
    /\ weekday(inp.now) = 2
    /\ weekday(TimeSelected) = 5
    /\ out[1] \div MinutesPerDay = (TimeSelected \div MinutesPerDay) + 7 + 2

\* C23: the time computed falls on Monday..Friday for every type, now and
\* history.
C23_NeverWeekend ==
    TimeComputed => weekday(out[1]) \in 0 .. 4

\* A closing follow-up asked on a Thursday for a lead that prefers 20h: Friday
\* 20:00 rolls to Saturday 09:00 and from there to Monday.
C23_Witness ==
    /\ TimeComputed
    /\ inp.followup_type = "closing"
    /\ weekday(inp.now) = 3
    /\ inp.lead_patterns.total_interactions >= 3
    /\ inp.lead_patterns.preferred_hours = <<20>>
    /\ weekday(out[1]) = 0 /\ time_of(out[1]) = business_start

\* C29 as stated: the time computed is never earlier than the now it was
\* computed at.
C29_AsStated ==
    TimeComputed => out[1] >= inp.now

WelcomeComputed == inp.kind = "time" /\ inp.followup_type = "welcome" /\ out # None

\* Days between the date of now + 2h and the date of the computed time.
WelcomeDayShift == (out[1] \div MinutesPerDay) - ((inp.now + 2 * 60) \div MinutesPerDay)

\* The date moves only as far as the weekend and after-hours rolls can move it:
\* never to a later weekday of choice.
WelcomeNoPreferredDay ==
    LET base == inp.now + 2 * 60
    IN  /\ WelcomeDayShift \in 0 .. 3
        /\ (weekday(base) <= 4 /\ time_of(out[1]) # business_start) => WelcomeDayShift = 0
        /\ weekday(base) <= 3 => WelcomeDayShift <= 1

\* C9 as stated: for type welcome the computed time has no preferred-day
\* adjustment, lies on Monday..Friday, within [09:00, 18:00) and outside the
\* closed lunch window [12:00, 14:00].
C9_AsStated ==
    WelcomeComputed =>
        /\ WelcomeNoPreferredDay
        /\ weekday(out[1]) <= 4
        /\ business_start <= time_of(out[1]) /\ time_of(out[1]) < business_end
        /\ ~(lunch_start <= time_of(out[1]) /\ time_of(out[1]) <= lunch_end)

\* C9 amended: for type welcome the computed time has no preferred-day
\* adjustment, lies on Monday..Friday, within the closed interval
\* [09:00, 18:00] and outside [12:00, 14:00): 18:00 and 14:00 are produced.
C9_WelcomeWindow ==
    WelcomeComputed =>
        /\ WelcomeNoPreferredDay
        /\ weekday(out[1]) <= 4
        /\ business_start <= time_of(out[1]) /\ time_of(out[1]) <= business_end
        /\ ~(lunch_start <= time_of(out[1]) /\ time_of(out[1]) < lunch_end)

\* A welcome follow-up of a lead whose history prefers 13h on Sundays, asked
\* on a Friday evening: lands at 14:00 on the Monday.
C9_Witness ==
    /\ WelcomeComputed
    /\ inp.lead_patterns.total_interactions >= 3
    /\ inp.lead_patterns.preferred_hours = <<13>>
    /\ inp.lead_patterns.preferred_days = <<6>>
    /\ weekday(inp.now) = 4 /\ time_of(inp.now) > 22 * 60
    /\ time_of(out[1]) = lunch_end
    /\ weekday(out[1]) = 0

C10_Scenario ==
    /\ inp.kind = "priority"
    /\ out # None
    /\ inp.lead.qualification_score = 8
    /\ inp.lead.interaction_count = 12
    /\ inp.lead.sentiment_score = <<5, 1>>
    /\ inp.lead.last_interaction = Some(inp.now - 10 * 60)
    /\ inp.last_intent = Some("demo_request")
    /\ inp.lead.source = Some("referral")

\* <<sum, count>> of the non-null sentiments of the lead's conversations
LeadSentiments(lead_id) == sentiment_total(conversations, lead_id, Len(conversations))

EscalationComputed == inp.kind = "escalate" /\ out # None

\* The rules in the order should_escalate evaluates them
RuleOrder == <<"low_confidence", "serious_complaint", "complex_support", "no_clear_intent">>

RuleTriggers(rule) ==
    CASE rule = "low_confidence" -> inp.confidence < 30
      [] rule = "serious_complaint" -> inp.intent = "complaint" /\ inp.polarity < -5
      [] rule = "complex_support" -> inp.intent = "support_request" /\ inp.confidence < 50
      [] rule = "no_clear_intent" ->
            /\ Len(inp.history) > 5
            /\ \E picked \in SUBSET ((Len(inp.history) - 4) .. Len(inp.history)) :
                  /\ Cardinality(picked) = 3
                  /\ \A i \in picked : inp.history[i].intent = Some("general")

\* C15: should_escalate is true iff the reasons list is non-empty, and the
\* reasons list holds exactly the reasons of the rules that trigger, in the
\* fixed order of the rules; confidence 0.2 with intent general escalates for
\* low confidence, confidence 0.9 with intent greeting and polarity 0.5 (no
\* history) does not escalate.
C15_RulesAdditive ==
    EscalationComputed =>
        /\ out[1].should_escalate <=> out[1].reasons # <<>>
        /\ out[1].reasons = SelectSeq(RuleOrder, RuleTriggers)
        /\ (inp.confidence = 20 /\ inp.intent = "general")
              => out[1].should_escalate /\ out[1].reasons[1] = "low_confidence"
        /\ (inp.confidence = 90 /\ inp.intent = "greeting" /\ inp.polarity = 5 /\ inp.history = <<>>)
              => ~out[1].should_escalate

\* A complaint with polarity -0.6 and confidence 0.2 after six unclear
\* messages: three rules trigger together.
C15_Witness ==
    /\ EscalationComputed
    /\ inp.intent = "complaint" /\ inp.polarity = -6 /\ inp.confidence = 20
    /\ Len(inp.history) = 6
    /\ out[1].reasons = <<"low_confidence", "serious_complaint", "no_clear_intent">>

ConfidenceComputed == inp.kind = "confidence" /\ out # None

\* The signals an input carries
Signals(i) ==
    (IF i.intent # "general" THEN {"intent"} ELSE {})
    \cup (IF i.custom # {} \/ i.spacy # {} THEN {"entities"} ELSE {})
    \cup (IF i.polarity > 3 \/ i.polarity < -3 THEN {"polarity"} ELSE {})

\* C16: confidence = min(1.0, 0.5 + 0.2 [intent is not general] + 0.2 [either
\* entity map non-empty] + 0.1 [|polarity| > 0.3]); it lies within [0, 1] and
\* an input with more signals never has the lower confidence.
C16_ConfidenceBounded ==
    ConfidenceComputed =>
        /\ out[1] = Min(100, 50 + 20 * Cardinality(Signals(inp) \cap {"intent"})
                                + 20 * Cardinality(Signals(inp) \cap {"entities"})
                                + 10 * Cardinality(Signals(inp) \cap {"polarity"}))
        /\ 0 <= out[1] /\ out[1] <= 100
        /\ \A more \in [kind : {"confidence"}, intent : ConfidenceIntents, custom : EntityMaps, spacy : EntityMaps, polarity : ConfidencePolarities] :
              Signals(inp) \subseteq Signals(more)
                  => out[1] <= calculate_confidence(more.intent, more.custom, more.spacy, more.polarity)

\* A greeting with an entity and polarity 0.4: all three signals, 1.0.
C16_Witness ==
    /\ ConfidenceComputed
    /\ inp.intent = "greeting" /\ inp.custom # {} /\ inp.polarity = 4
    /\ out[1] = 100

\* C17 as stated: no step lowers the interaction count of a lead.
C17_AsStated ==
    [][\A l \in DOMAIN leads : leads'[l].interaction_count >= leads[l].interaction_count]_vars

\* The step is a create_lead, update_lead or process_message request
SyncingStep == lastResult'.op \in {"create_lead", "update_lead", "process"}

\* The request of the step met a failing CRM synchronisation
SyncFailed ==
    /\ "crm_sync" \in DOMAIN lastResult'
    /\ lastResult'.crm_sync # None
    /\ ~lastResult'.crm_sync[1].success

\* C18: a failure of the CRM synchronisation is never the failure of
\* create_lead, update_lead or process_message; the request returns success
\* and its lead is committed as returned, for process_message together with
\* the inbound conversation and the lead's counters.
C18_SyncFailureAdvisory ==
    [][SyncingStep =>
        /\ ~lastResult'.success => lastResult'.error # "sync"
        /\ SyncFailed =>
            /\ lastResult'.success
            /\ lastResult'.lead_id \in DOMAIN leads'
            /\ lastResult'.op = "create_lead" =>
                /\ lastResult'.lead_id \notin DOMAIN leads
                /\ leads'[lastResult'.lead_id] = lastResult'.data
            /\ lastResult'.op = "update_lead" =>
                leads'[lastResult'.lead_id] = lastResult'.data
            /\ lastResult'.op = "process" =>
                /\ Len(conversations') > Len(conversations)
                /\ conversations'[Len(conversations) + 1].lead_id = lastResult'.lead_id
                /\ conversations'[Len(conversations) + 1].direction = "inbound"
                /\ leads'[lastResult'.lead_id].interaction_count
                      = leads[lastResult'.lead_id].interaction_count + 1
                /\ leads'[lastResult'.lead_id].last_interaction = Some(now)]_vars

\* A processed message whose CRM synchronisation failed: success, with the
\* failure attached, and the conversation stored.
C18_Witness ==
    /\ lastResult.op = "process"
    /\ lastResult.success
    /\ lastResult.crm_sync # None
    /\ ~lastResult.crm_sync[1].success
    /\ conversations # <<>>
    /\ leads[1].interaction_count > 0

PriorityRank(priority) ==
    CASE priority = "LOW" -> 1 [] priority = "MEDIUM" -> 2
      [] priority = "HIGH" -> 3 [] priority = "URGENT" -> 4

PendingStep == lastResult'.op = "pending" /\ now' = now

\* The follow-ups a list of pending items names
Returned(items) == {items[k].followup_id : k \in DOMAIN items}

PendingPriority(item) ==
    PriorityRank(calculate_priority(leads[item.lead_id],
                                    last_intent_of(conversations, item.lead_id), now))

\* C20 as stated: in the list get_pending_followups returns, an item of
\* higher priority comes before one of lower priority, and of two items of
\* equal priority the one scheduled earlier comes first.
C20_AsStated ==
    [][PendingStep =>
        \A j, k \in DOMAIN lastResult'.items :
            j < k =>
                \/ PendingPriority(lastResult'.items[j]) > PendingPriority(lastResult'.items[k])
                \/ /\ PendingPriority(lastResult'.items[j]) = PendingPriority(lastResult'.items[k])
                   /\ lastResult'.items[j].scheduled_at <= lastResult'.items[k].scheduled_at]_vars

\* The statuses from which the lifecycle allows no further change
TerminalStatuses == {"converted", "lost"}

\* C13: under lead updates, manual escalations and CRM webhooks, a lead that
\* is converted or lost keeps its status for ever (so escalated and deleted
\* are entered only from a non-terminal status).
C13_AsStated ==
    [][\A l \in DOMAIN leads :
          leads[l].status \in TerminalStatuses => leads'[l].status = leads[l].status]_vars

\* C12 as stated: a lead that has conversations carrying a sentiment has as
\* sentiment_score the mean of those sentiments, also when that mean is 0.
\* (Sentiments are only written by process_message and add_conversation,
\* which both recompute the score.)
C12_AsStated ==
    \A l \in DOMAIN leads :
        LeadSentiments(l)[2] > 0 =>
            leads[l].sentiment_score[1] * LeadSentiments(l)[2]
                = LeadSentiments(l)[1] * leads[l].sentiment_score[2]

TierComputed == inp.kind = "tier" /\ out # None

\* C11: a score >= 0.8 gives URGENT, 0.6 <= score < 0.8 gives HIGH,
\* 0.4 <= score < 0.6 gives MEDIUM and a score < 0.4 gives LOW (0.0 is LOW,
\* 0.79 is HIGH, 0.8 is URGENT), and of two scores the greater never gets the
\* lower priority.
C11_TierPartition ==
    TierComputed =>
        /\ out[1].priority = "URGENT" <=> inp.score >= 800
        /\ out[1].priority = "HIGH" <=> (600 <= inp.score /\ inp.score < 800)
        /\ out[1].priority = "MEDIUM" <=> (400 <= inp.score /\ inp.score < 600)
        /\ out[1].priority = "LOW" <=> inp.score < 400
        /\ inp.score = 0 => out[1].priority = "LOW"
        /\ inp.score = 790 => out[1].priority = "HIGH"
        /\ inp.score = 800 => out[1].priority = "URGENT"
        /\ inp.score <= inp.other => PriorityRank(out[1].priority) <= PriorityRank(out[1].other)

\* The score 0.8 against the score 0.799: URGENT against HIGH.
C11_Witness ==
    /\ TierComputed
    /\ inp.score = 800 /\ out[1].priority = "URGENT"
    /\ inp.other = 799 /\ out[1].other = "HIGH"

\* C10 as stated: in the scenario the composite score is >= 0.8 and the
\* priority is URGENT.
C10_AsStated ==
    C10_Scenario => /\ out[1].score * 100 >= 80 * out[1].den
                    /\ out[1].priority = "URGENT"

\* C10 amended: in the scenario the composite score is 15369/21600 (0.7115..),
\* which is >= 0.6 and < 0.8, and the priority is HIGH.
C10_ScenarioIsHigh ==
    C10_Scenario => /\ out[1].score = 15369 /\ out[1].den = 21600
                    /\ out[1].score * 100 >= 60 * out[1].den
                    /\ out[1].score * 100 < 80 * out[1].den
                    /\ out[1].priority = "HIGH"

C10_Witness == C10_Scenario

=============================================================================
